---------------------------- MODULE Spec2Model ----------------------------
(***************************************************************************)
(* A model of the regatta CSV-to-SQL service (src/database.js, with the    *)
(* Promise.all loader of src/index.js and the earlier query builder of     *)
(* src/unnamed/part_002):                                                  *)
(*   - the upload path: POST /upload, its row validation, bulkInsertData   *)
(*     and the store's transactions;                                       *)
(*   - the chat path: analyzeQuery, validateInput, generateSQL and the     *)
(*     handler of POST /api/chat.                                          *)
(* Node runs each callback to completion, so one action is one callback:   *)
(* everything a handler does between two awaits.                           *)
(***************************************************************************)
EXTENDS Integers, Sequences, FiniteSets, TLC

VARIABLES
    variant,      \* the source file whose code is deployed
    universe,     \* the CSV rows a client may send (fixed by the specification)
    pc,           \* pc[u]: where upload request u stands
    rows,         \* rows[u]: the handler's results array (parsed rows with _lineNumber)
    loc,          \* loc[u]: the locals of bulkInsertData (cleanRows, skipperMap, ...)
    resp,         \* resp[u]: the HTTP response sent for request u
    tx,           \* tx[u]: the transaction on the client that request u holds
    skippers,     \* committed rows of table skippers
    races,        \* committed rows of table races
    results,      \* committed rows of table results
    seqSk,        \* next value of skippers.id (SERIAL)
    seqRace,      \* next value of races.id (SERIAL)
    supplied,     \* history: per name, the last non-null club of the committed loads
    chat          \* the state of one request of another route (POST /api/chat,
                  \* an administration route) or of the startup

vars == <<variant, universe, pc, rows, loc, resp, tx, skippers, races, results,
          seqSk, seqRace, supplied, chat>>

uploadVars == <<variant, universe, pc, rows, loc, resp, tx, skippers, races,
                results, seqSk, seqRace, supplied>>

(***************************************************************************)
(* Bounds of the model.                                                    *)
(***************************************************************************)
\* The number of CSV rows the clients send, over all uploads.
MaxRows == 3

Uploads == {"u1", "u2"}
Variants == {"database.js", "index.js"}

(***************************************************************************)
(* JavaScript values.  null, NaN and numbers are tagged records, so that   *)
(* the truthiness tests of the code can be written as the code has them.   *)
(* A decimal is held in tenths (parseFloat("1.5") is Num(15)).             *)
(***************************************************************************)
Null == [t |-> "null"]
Undefined == [t |-> "undefined"]
NaN == [t |-> "NaN"]
Num(n) == [t |-> "num", v |-> n]
Str(s) == [t |-> "str", s |-> s]
\* A string held as its sequence of characters.
Txt(c) == [t |-> "txt", c |-> c]

\* JavaScript's ToBoolean.
Truthy(x) ==
    CASE x.t = "null" -> FALSE
      [] x.t = "undefined" -> FALSE
      [] x.t = "NaN" -> FALSE
      [] x.t = "num" -> x.v # 0
      [] x.t = "str" -> x.s # ""
      [] x.t = "txt" -> x.c # <<>>

Digits == {"0", "1", "2", "3", "4", "5", "6", "7", "8", "9"}
DigitVal(c) ==
    CASE c = "0" -> 0 [] c = "1" -> 1 [] c = "2" -> 2 [] c = "3" -> 3
      [] c = "4" -> 4 [] c = "5" -> 5 [] c = "6" -> 6 [] c = "7" -> 7
      [] c = "8" -> 8 [] c = "9" -> 9

\* The length of the longest prefix of digits of a character sequence.
RECURSIVE DigitPrefix(_)
DigitPrefix(s) ==
    IF s = <<>> \/ Head(s) \notin Digits THEN 0 ELSE 1 + DigitPrefix(Tail(s))

RECURSIVE DigitsValue(_)
DigitsValue(s) ==
    IF s = <<>> THEN 0 ELSE 10 * DigitsValue(SubSeq(s, 1, Len(s) - 1)) + DigitVal(s[Len(s)])

\* String.prototype.trim on a character sequence.
RECURSIVE TrimLeft(_)
TrimLeft(s) == IF s # <<>> /\ Head(s) = " " THEN TrimLeft(Tail(s)) ELSE s
RECURSIVE TrimRight(_)
TrimRight(s) ==
    IF s # <<>> /\ s[Len(s)] = " " THEN TrimRight(SubSeq(s, 1, Len(s) - 1)) ELSE s
TrimChars(s) == TrimRight(TrimLeft(s))

\* s without the sign it starts with.
Unsigned(s) == IF s # <<>> /\ Head(s) \in {"-", "+"} THEN Tail(s) ELSE s

\* parseInt(s): leading white space is skipped, a sign is read, and the
\* value is that of the decimal digits that follow; NaN when there is none.
ParseInt(s) ==
    IF DigitPrefix(Unsigned(TrimLeft(s))) = 0 THEN NaN
    ELSE IF Head(TrimLeft(s)) = "-"
         THEN Num(0 - DigitsValue(SubSeq(Unsigned(TrimLeft(s)), 1,
                                         DigitPrefix(Unsigned(TrimLeft(s))))))
         ELSE Num(DigitsValue(SubSeq(Unsigned(TrimLeft(s)), 1,
                                     DigitPrefix(Unsigned(TrimLeft(s))))))

\* parseFloat(s), in tenths: digits, then optionally a point and digits.
ParseFloat(s) ==
    LET n == DigitPrefix(s)
        rest == SubSeq(s, n + 1, Len(s))
        frac == IF rest # <<>> /\ Head(rest) = "." THEN Tail(rest) ELSE <<>>
        m == DigitPrefix(frac)
    IN  IF n = 0 /\ m = 0 THEN NaN
        ELSE Num(10 * DigitsValue(SubSeq(s, 1, n))
                 + (IF m = 0 THEN 0 ELSE DigitVal(frac[1])))


(***************************************************************************)
(* Text fields are strings; the inputs are representatives, and trim and   *)
(* the Date constructor are given by what they return on them.             *)
(***************************************************************************)
\* A text of 300 characters, and the same text with a space after it.
FullText == "<a text of 300 characters>"
PaddedText == "<a text of 300 characters> "

Trim(s) == IF s = " " THEN "" ELSE IF s = PaddedText THEN FullText ELSE s

\* The ceiling of the length checks and of the VARCHAR columns.
MaxFieldLength == 300

\* A text of 301 characters, and s.length.
LongText == "<a text of 301 characters>"
TextLength(s) ==
    IF s = "" THEN 0
    ELSE IF s = LongText \/ s = PaddedText THEN MaxFieldLength + 1
    ELSE IF s = FullText THEN MaxFieldLength
    ELSE 1

Invalid == [t |-> "invalid"]
DateOf(d) == [t |-> "date", d |-> d]

Includes(s, c) ==
    CASE c = "/" -> s \in {"04/01/2024", "2024/03/05"}
      [] c = "-" -> s \in {"2024-03-05", "not-a-date"}

\* dateStr.match(/[A-Za-z]+/)
MatchesLetters(s) == s \in {"March 5, 2024", "not-a-date", "tomorrow"}

\* const [month, day, year] = dateStr.split('/'); new Date(year, month - 1, day)
\* For "2024/03/05" that is new Date("05", 2023, "03"): the year 5 stands for
\* 1905, and month 2023 carries 168 years into it.
NewDateFromParts(s) ==
    CASE s = "04/01/2024" -> DateOf("2024-04-01")
      [] s = "2024/03/05" -> DateOf("2073-08-03")
      [] OTHER -> Invalid

\* new Date(dateStr)
NewDate(s) ==
    CASE s = "2024-03-05" -> DateOf("2024-03-05")
      [] s = "March 5, 2024" -> DateOf("2024-03-05")
      [] OTHER -> Invalid

\* dateStr.match(/([A-Za-z]+)\s+(\d+),?\s+(\d{4})/), rebuilt as "Month DD, YYYY";
\* "" when the string does not match.
MonthDayYear(s) == IF s = "March 5, 2024" THEN "March 5, 2024" ELSE ""

\* The branches of parseDate, before its final isNaN test: the Date it built,
\* or Null when no branch assigned parsedDate.
BuildDate(s) ==
    IF Includes(s, "/") THEN NewDateFromParts(s)
    ELSE IF Includes(s, "-") THEN NewDate(s)
    ELSE IF MatchesLetters(s)
         THEN IF NewDate(s) # Invalid THEN NewDate(s)
              ELSE IF MonthDayYear(s) # "" THEN NewDate(MonthDayYear(s))
              ELSE Invalid
    ELSE Null

\* parseDate(dateStr): null for an empty, unrecognised or invalid date.
ParseDate(dateStr) ==
    IF dateStr = "" THEN Null
    ELSE LET d == BuildDate(Trim(dateStr))
         IN  IF d.t = "date" THEN d ELSE Null

(***************************************************************************)
(* The CSV.  A raw row is what csv-parse hands to the 'data' callback.     *)
(***************************************************************************)
RawRow(name, date, skipper, club, position, points) ==
    [Regatta_Name |-> name, Regatta_Date |-> date, Skipper |-> skipper,
     Yacht_Club |-> club, Category |-> "", Boat_Name |-> "", Sail_Number |-> "",
     Position |-> position, Total_Points |-> points]

\* All sequences over S of length 0..n.
SeqsUpTo(S, n) == UNION {[1..k -> S] : k \in 0..n}

\* .on('data'): lineNumber starts at 1 for the header and is incremented
\* before it is stored with each row.  The parser (skip_empty_lines) makes no
\* record of an empty line, and the callback does not run for it.
\* physicalLine is the line of the file the record stands on, the header
\* being line 1; the program does not know it.
BlankLine == [blank |-> TRUE]
IsRecord(l) == l # BlankLine
Records(file) == SelectSeq(file, IsRecord)

PhysicalLine(file, i) ==
    1 + CHOOSE k \in 1..Len(file) :
            /\ IsRecord(file[k])
            /\ Cardinality({j \in 1..k : IsRecord(file[j])}) = i

ParsedRows(file) ==
    [i \in 1..Len(Records(file)) |->
        [data |-> Records(file)[i], lineNumber |-> i + 1,
         physicalLine |-> PhysicalLine(file, i)]]

NoError == [msg |-> "", row |-> Null]
RowError(msg, n) == [msg |-> msg, row |-> n]

\* `Invalid date format in row ${rowNum}: ${dateStr}`
DateError(n, dateStr) ==
    [msg |-> "Invalid date format", row |-> n, value |-> dateStr]

\* The date test the upload handler makes inline.
InlineDateOk(dateStr) ==
    LET d == BuildDate(dateStr) IN d.t = "date"

\* The body of the handler's validation loop for one row.
ValidateRow(r) ==
    LET rowNum == Num(r.lineNumber)
    IN  IF Trim(r.data.Regatta_Name) = "" THEN RowError("Missing Regatta Name", rowNum)
        ELSE IF Trim(r.data.Skipper) = "" THEN RowError("Missing Skipper", rowNum)
        ELSE IF Trim(r.data.Regatta_Date) = "" THEN RowError("Missing Date", rowNum)
        ELSE IF ~InlineDateOk(Trim(r.data.Regatta_Date))
             THEN DateError(rowNum, Trim(r.data.Regatta_Date))
        ELSE NoError

RECURSIVE ValidateFrom(_, _)
ValidateFrom(rs, i) ==
    IF i > Len(rs) THEN NoError
    ELSE IF ValidateRow(rs[i]) # NoError THEN ValidateRow(rs[i])
    ELSE ValidateFrom(rs, i + 1)

\* (Mutant: only the first row is validated.)
ValidateRowsFirstOnly(rs) ==
    IF Len(rs) = 0 THEN RowError("CSV file is empty", Null) ELSE ValidateRow(rs[1])

\* The validation of the 'end' callback: the error of the first row that
\* fails, NoError when every row passes.
ValidateRows(rs) ==
    IF Len(rs) = 0 THEN RowError("CSV file is empty", Null) ELSE ValidateFrom(rs, 1)

(***************************************************************************)
(* bulkInsertData: row cleaning.                                           *)
(***************************************************************************)
\* x?.trim() || null
TextOrNull(s) == IF Trim(s) = "" THEN Null ELSE Str(Trim(s))

\* row.Position ? parseInt(row.Position.toString().trim()) : null
CleanPosition(p) == IF p = <<>> THEN Null ELSE ParseInt(TrimChars(p))

\* row.Total_Points ? parseFloat(row.Total_Points.toString().trim()) : null
CleanPoints(p) == IF p = <<>> THEN Null ELSE ParseFloat(TrimChars(p))

CleanRow(r) ==
    [originalLineNumber |-> IF variant = "database.js" THEN Num(r.lineNumber) ELSE Null,
     regattaName |-> TextOrNull(r.data.Regatta_Name),
     regattaDate |-> ParseDate(r.data.Regatta_Date),
     skipper |-> TextOrNull(r.data.Skipper),
     yachtClub |-> TextOrNull(r.data.Yacht_Club),
     category |-> TextOrNull(r.data.Category),
     boatName |-> TextOrNull(r.data.Boat_Name),
     sailNumber |-> TextOrNull(r.data.Sail_Number),
     position |-> CleanPosition(r.data.Position),
     totalPoints |-> CleanPoints(r.data.Total_Points)]

CleanRows(rs) == [i \in 1..Len(rs) |-> CleanRow(rs[i])]

\* row.field && row.field.length > 300
TooLong(x) == Truthy(x) /\ TextLength(x.s) > MaxFieldLength

\* The body of the length loop for one clean row.
LengthErrorOf(c) ==
    IF TooLong(c.regattaName) THEN RowError("Regatta name too long", c.originalLineNumber)
    ELSE IF TooLong(c.category) THEN RowError("Category too long", c.originalLineNumber)
    ELSE IF TooLong(c.boatName) THEN RowError("Boat name too long", c.originalLineNumber)
    ELSE IF TooLong(c.sailNumber) THEN RowError("Sail number too long", c.originalLineNumber)
    ELSE IF TooLong(c.skipper) THEN RowError("Skipper name too long", c.originalLineNumber)
    ELSE IF TooLong(c.yachtClub) THEN RowError("Yacht club name too long", c.originalLineNumber)
    ELSE NoError

\* (Mutant: the loader makes no length validation.)
LengthErrorSkipped(cs) == NoError

\* The length validation of bulkInsertData (database.js; the loader of
\* index.js has none): the error of the first row with a field over 300.
RECURSIVE LengthErrorFrom(_, _)
LengthErrorFrom(cs, i) ==
    IF i > Len(cs) THEN NoError
    ELSE IF LengthErrorOf(cs[i]) # NoError THEN LengthErrorOf(cs[i])
    ELSE LengthErrorFrom(cs, i + 1)

LengthError(cs) ==
    IF variant = "database.js" THEN LengthErrorFrom(cs, 1) ELSE NoError

\* [...new Set(cleanRows.filter(row => row.skipper).map(row => row.skipper))]:
\* the names in the order of their first row.
RECURSIVE UniqueFrom(_, _, _)
UniqueFrom(cs, i, acc) ==
    IF i > Len(cs) THEN acc
    ELSE IF Truthy(cs[i].skipper) /\ \A j \in 1..Len(acc) : acc[j] # cs[i].skipper
         THEN UniqueFrom(cs, i + 1, Append(acc, cs[i].skipper))
    ELSE UniqueFrom(cs, i + 1, acc)

UniqueSkippers(cs) == UniqueFrom(cs, 1, <<>>)

\* cleanRows.find(r => r.skipper === skipperName): the first row of that name.
FindRow(cs, name) ==
    cs[CHOOSE i \in 1..Len(cs) :
          cs[i].skipper = name /\ \A j \in 1..(i - 1) : cs[j].skipper # name]

\* The club bound to $2 of the upsert for skipperName.
UpsertClub(cs, name) == FindRow(cs, name).yachtClub

\* if (!row.position && !row.totalPoints) continue;
SkipsResult(c) == ~Truthy(c.position) /\ ~Truthy(c.totalPoints)

(***************************************************************************)
(* The store.  The committed tables are skippers, races and results; a     *)
(* transaction holds the row versions it wrote until COMMIT publishes them *)
(* or ROLLBACK discards them.  Each row version carries, as history, the   *)
(* request that wrote it (by) and the index of the CSV row it came from    *)
(* (row).  results.id plays no part and is left out.                       *)
(***************************************************************************)
\* (clubChanged is history: the transaction gave a committed skipper another club.)
\* client: pool.connect() gave the request a client; released: the number of
\* times the request has called client.release().
NoTx ==
    [state |-> "none", sk |-> {}, races |-> {}, results |-> {}, clubChanged |-> FALSE,
     client |-> FALSE, released |-> 0]

\* What request u's transaction sees: its own versions over the committed ones.
ViewSkippers(u) ==
    {s \in skippers : \A p \in tx[u].sk : p.id # s.id} \cup tx[u].sk
ViewRaces(u) == races \cup tx[u].races
ViewResults(u) == results \cup tx[u].results

\* skippers.name is UNIQUE: a second writer of a name waits for the first
\* transaction (open, or failed and not yet rolled back) to end.
LockedByOther(u, name) ==
    \E v \in Uploads \ {u} : \E p \in tx[v].sk : p.name = name

\* (Mutant: a plain INSERT, with no ON CONFLICT clause and no unique name.)
UpsertRowPlainInsert(u, name, club) ==
    [id |-> seqSk, name |-> name, yacht_club |-> club, by |-> u]

\* The text columns are VARCHAR(300): a longer value makes the statement fail.
FitsColumn(x) == IF x = Null THEN TRUE ELSE TextLength(x.s) <= MaxFieldLength

\* results.position is INTEGER: the text "NaN" the driver sends for NaN is not
\* an integer, and the statement fails.  (total_points is DECIMAL, a type
\* that has a NaN.)
FitsInteger(x) == x # NaN

\* INSERT INTO skippers (name, yacht_club) VALUES ($1, $2)
\* ON CONFLICT (name) DO UPDATE SET yacht_club = COALESCE($2, skippers.yacht_club)
\* RETURNING id: the row version written.
UpsertRow(u, name, club) ==
    LET old == {s \in ViewSkippers(u) : s.name = name}
    IN  IF old = {}
        THEN [id |-> seqSk, name |-> name, yacht_club |-> club, by |-> u]
        ELSE LET o == CHOOSE s \in old : TRUE
             IN  [id |-> o.id, name |-> name,
                  yacht_club |-> IF club # Null THEN club ELSE o.yacht_club,
                  by |-> u]

\* tx[u].sk after the upsert of a row version.
WithSkipper(u, new) == {p \in tx[u].sk : p.id # new.id} \cup {new}

\* COMMIT: the committed tables after transaction u is published.
CommittedSkippers(u) ==
    {s \in skippers : \A p \in tx[u].sk : p.id # s.id} \cup tx[u].sk

\* ROLLBACK (and the end of a session whose connection was lost): the
\* transaction's versions are discarded.
RolledBack(u) ==
    [NoTx EXCEPT !.state = "rolledback", !.clubChanged = tx[u].clubChanged,
                 !.client = tx[u].client, !.released = tx[u].released]

\* (Mutant: the function ends without releasing its client.)
FinallySkipped(t) == t

\* finally { client.release() }
Finally(t) == [t EXCEPT !.released = @ + 1]

(***************************************************************************)
(* bulkInsertData: locals and control.                                     *)
(***************************************************************************)
NoLocals ==
    [cleanRows |-> <<>>, uniqueSkippers |-> <<>>, k |-> 1, skipperMap |-> {},
     raceResults |-> <<>>, i |-> 1, error |-> NoError]

\* skipperMap.get(name)
MapGet(m, name) == (CHOOSE e \in m : e.name = name).id

\* The index of the first row at or after i whose result is not skipped;
\* Len + 1 when there is none.
RECURSIVE NextResultRow(_, _)
NextResultRow(cs, i) ==
    IF i > Len(cs) THEN i
    ELSE IF SkipsResult(cs[i]) THEN NextResultRow(cs, i + 1)
    ELSE i

\* The position after the skipper loop has handled k - 1 names.
AfterUpserts(l) ==
    IF l.k <= Len(l.uniqueSkippers) THEN "upsert" ELSE "race"

\* The message each wrapper of bulkInsertData gives a failed statement, with
\* the row number when the wrapper knows one (loader of database.js only).
FailureOf(u) ==
    LET l == loc[u]
    IN  IF variant # "database.js" THEN RowError("store error", Null)
        ELSE CASE pc[u] = "upsert" ->
                    RowError("Error inserting skipper",
                             FindRow(l.cleanRows, l.uniqueSkippers[l.k]).originalLineNumber)
               [] pc[u] = "race" ->
                    RowError("Error inserting race", l.cleanRows[l.i].originalLineNumber)
               [] pc[u] = "result" ->
                    RowError("Error inserting results", l.cleanRows[l.i].originalLineNumber)
               [] OTHER -> RowError("store error", Null)

Response(status, body) == [status |-> status, body |-> body]
NoResponse == [status |-> 0, body |-> NoError]

\* The body of the handler's 500 response to a failed load:
\* extractRowNumberFromError finds "row N" in the message when it is there.
UploadFailed(e) == Response(500, e)

\* raceResults[index] = result
PlaceRaceResult(rr, index, id) ==
    [j \in 1..index |-> IF j = index THEN id ELSE rr[j]]

\* (Mutant: the row's index is taken for the race id.)
RaceIdForIndex(l, index) == index

\* (Mutant: every result is given the race of the first row.)
RaceIdForFirst(l, index) == l.raceResults[1]

\* The race_id bound to $1 of the result insert of row index.
RaceIdFor(l, index) == l.raceResults[index]

\* The skipper_id bound to $2 of the result insert of a row.
SkipperIdFor(l, c) ==
    IF Truthy(c.skipper) THEN Num(MapGet(l.skipperMap, c.skipper)) ELSE Null

\* (Mutant: the statements ran outside the transaction, on the pool, so the
\* ROLLBACK of the catch block undoes nothing.)
AfterCatchKeeps(u) ==
    [sk |-> CommittedSkippers(u), races |-> races \cup tx[u].races,
     results |-> results \cup tx[u].results]

\* The committed tables once the catch block of bulkInsertData has run its
\* ROLLBACK on the client that ran the statements: nothing of u is kept.
AfterCatch(u) == [sk |-> skippers, races |-> races, results |-> results]

\* History: the last non-null club supplied per name, after the rows cs.
RECURSIVE SuppliedAfter(_, _, _)
SuppliedAfter(sup, cs, i) ==
    IF i > Len(cs) THEN sup
    ELSE LET c == cs[i]
             next == IF Truthy(c.skipper) /\ c.yachtClub # Null
                     THEN {e \in sup : e.name # c.skipper.s}
                              \cup {[name |-> c.skipper.s, club |-> c.yachtClub]}
                     ELSE sup
         IN  SuppliedAfter(next, cs, i + 1)

(***************************************************************************)
(* POST /upload.                                                           *)
(***************************************************************************)
\* if (!req.file) return res.status(400).json({ error: 'No file uploaded' })
NoFile(u) ==
    /\ pc[u] = "idle"
    /\ resp' = [resp EXCEPT ![u] = Response(400, RowError("No file uploaded", Null))]
    /\ pc' = [pc EXCEPT ![u] = "done"]
    /\ UNCHANGED <<variant, universe, rows, loc, tx, skippers, races, results,
                   seqSk, seqRace, supplied, chat>>

\* The rows the uploads have sent so far.
RECURSIVE RowsSent(_)
RowsSent(U) ==
    IF U = {} THEN 0
    ELSE LET u == CHOOSE v \in U : TRUE IN Len(rows[u]) + RowsSent(U \ {u})

\* The parser's 'data' callbacks: the file's rows reach the results array.
Receive(u) ==
    /\ pc[u] = "idle"
    /\ \E file \in SeqsUpTo(universe, MaxRows - RowsSent(Uploads)) :
          rows' = [rows EXCEPT ![u] = ParsedRows(file)]
    /\ pc' = [pc EXCEPT ![u] = "parsed"]
    /\ UNCHANGED <<variant, universe, loc, resp, tx, skippers, races, results,
                   seqSk, seqRace, supplied, chat>>

\* The file is not well-formed CSV (a record of another length than the
\* header, a quote that is not closed): the parser emits 'error' and never
\* 'end'.  The handler registers listeners for 'data' and 'end' only, and its
\* outer try/catch has returned by then, so the event is thrown as an uncaught
\* exception and the process exits: no request that is not answered yet gets
\* a response, and the store discards the transactions of the lost sessions.
ParseError(u) ==
    /\ pc[u] = "idle"
    /\ pc' = [v \in Uploads |->
                IF pc[v] \in {"off", "done"} THEN pc[v] ELSE "crashed"]
    /\ tx' = [v \in Uploads |->
                IF tx[v].state \in {"open", "aborted"} THEN RolledBack(v) ELSE tx[v]]
    /\ loc' = [v \in Uploads |-> IF pc[v] \in {"off", "done"} THEN loc[v] ELSE NoLocals]
    /\ UNCHANGED <<variant, universe, rows, resp, skippers, races, results,
                   seqSk, seqRace, supplied, chat>>

\* The parser's 'end' callback: validate every row, then call bulkInsertData,
\* which runs up to its await of pool.connect().
OnEnd(u) ==
    /\ pc[u] = "parsed"
    /\ LET e == ValidateRows(rows[u])
       IN  IF e # NoError
           THEN /\ resp' = [resp EXCEPT ![u] = UploadFailed(e)]
                /\ pc' = [pc EXCEPT ![u] = "done"]
           ELSE /\ pc' = [pc EXCEPT ![u] = "connect"]
                /\ UNCHANGED resp
    /\ UNCHANGED <<variant, universe, rows, loc, tx, skippers, races, results,
                   seqSk, seqRace, supplied, chat>>

\* pool.connect() resolves; client.query('BEGIN') is issued.
Connect(u) ==
    /\ pc[u] = "connect"
    /\ tx' = [tx EXCEPT ![u].client = TRUE]
    /\ pc' = [pc EXCEPT ![u] = "begin"]
    /\ UNCHANGED <<variant, universe, rows, loc, resp, skippers, races,
                   results, seqSk, seqRace, supplied, chat>>

\* pool.connect() rejects: bulkInsertData throws before its try block, and
\* the handler answers 500.
ConnectFails(u) ==
    /\ pc[u] = "connect"
    /\ resp' = [resp EXCEPT ![u] = UploadFailed(RowError("store error", Null))]
    /\ pc' = [pc EXCEPT ![u] = "done"]
    /\ UNCHANGED <<variant, universe, rows, loc, tx, skippers, races, results,
                   seqSk, seqRace, supplied, chat>>

\* BEGIN succeeds; the rows are cleaned and their lengths checked (a field
\* that is too long throws, and the catch block issues ROLLBACK), the distinct
\* skippers are collected and the first upsert is issued.
Begin(u) ==
    /\ pc[u] = "begin"
    /\ tx' = [tx EXCEPT ![u].state = "open"]
    /\ LET cs == CleanRows(rows[u])
           l == [NoLocals EXCEPT !.cleanRows = cs,
                                 !.uniqueSkippers = UniqueSkippers(cs)]
       IN  IF LengthError(cs) # NoError
           THEN /\ loc' = [loc EXCEPT ![u] = [NoLocals EXCEPT !.error = LengthError(cs)]]
                /\ pc' = [pc EXCEPT ![u] = "rollback"]
           ELSE /\ loc' = [loc EXCEPT ![u] = l]
                /\ pc' = [pc EXCEPT ![u] = AfterUpserts(l)]
    /\ UNCHANGED <<variant, universe, rows, resp, skippers, races, results,
                   seqSk, seqRace, supplied, chat>>

\* One pass of the skipper loop: the upsert of uniqueSkippers[k] runs in the
\* store and its id is put in skipperMap.
Upsert(u) ==
    /\ pc[u] = "upsert"
    /\ LET l == loc[u]
           name == l.uniqueSkippers[l.k]
           new == UpsertRow(u, name.s, UpsertClub(l.cleanRows, name))
           l2 == [l EXCEPT !.k = l.k + 1,
                           !.skipperMap = {e \in l.skipperMap : e.name # name}
                                             \cup {[name |-> name, id |-> new.id]}]
       IN  /\ ~LockedByOther(u, name.s)
           /\ FitsColumn(name) /\ FitsColumn(UpsertClub(l.cleanRows, name))
           /\ tx' = [tx EXCEPT ![u].sk = WithSkipper(u, new),
                                ![u].clubChanged =
                                    @ \/ \E s \in skippers :
                                            s.id = new.id /\ s.yacht_club # new.yacht_club]
           /\ seqSk' = IF new.id = seqSk THEN seqSk + 1 ELSE seqSk
           /\ loc' = [loc EXCEPT ![u] = l2]
           /\ pc' = [pc EXCEPT ![u] = AfterUpserts(l2)]
    /\ UNCHANGED <<variant, universe, rows, resp, skippers, races, results,
                   seqRace, supplied, chat>>

\* The position once the race of row i has been inserted.
AfterRace(l) ==
    IF l.i <= Len(l.cleanRows) THEN "race"
    ELSE IF NextResultRow(l.cleanRows, 1) <= Len(l.cleanRows) THEN "result"
    ELSE "commit"

\* The race insert of row i runs in the store (database.js: one pass of the
\* race loop; index.js: the next query of the Promise.all, which the client
\* sends in row order) and its id is kept at index i.
RaceInsert(u) ==
    /\ pc[u] = "race"
    /\ LET l == loc[u]
           c == l.cleanRows[l.i]
           l2 == [l EXCEPT !.raceResults = PlaceRaceResult(l.raceResults, l.i, seqRace),
                           !.i = l.i + 1]
           l3 == IF AfterRace(l2) = "race" THEN l2
                 ELSE [l2 EXCEPT !.i = NextResultRow(l.cleanRows, 1)]
       IN  /\ FitsColumn(c.regattaName) /\ FitsColumn(c.category)
           /\ FitsColumn(c.boatName) /\ FitsColumn(c.sailNumber)
           /\ tx' = [tx EXCEPT ![u].races = @ \cup
                        {[id |-> seqRace, regatta_name |-> c.regattaName,
                          regatta_date |-> c.regattaDate, category |-> c.category,
                          boat_name |-> c.boatName, sail_number |-> c.sailNumber,
                          by |-> u, row |-> l.i]}]
           /\ seqRace' = seqRace + 1
           /\ loc' = [loc EXCEPT ![u] = l3]
           /\ pc' = [pc EXCEPT ![u] = AfterRace(l2)]
    /\ UNCHANGED <<variant, universe, rows, resp, skippers, races, results,
                   seqSk, supplied, chat>>

\* The result insert of row i, the next row that is not skipped.
ResultInsert(u) ==
    /\ pc[u] = "result"
    /\ LET l == loc[u]
           c == l.cleanRows[l.i]
           n == NextResultRow(l.cleanRows, l.i + 1)
       IN  /\ FitsInteger(c.position)
           /\ tx' = [tx EXCEPT ![u].results = @ \cup
                        {[race_id |-> RaceIdFor(l, l.i),
                          skipper_id |-> SkipperIdFor(l, c),
                          position |-> c.position,
                          total_points |-> c.totalPoints,
                          by |-> u, row |-> l.i]}]
           /\ loc' = [loc EXCEPT ![u].i = n]
           /\ pc' = [pc EXCEPT ![u] = IF n <= Len(l.cleanRows) THEN "result" ELSE "commit"]
    /\ UNCHANGED <<variant, universe, rows, resp, skippers, races, results,
                   seqSk, seqRace, supplied, chat>>

\* COMMIT succeeds; bulkInsertData releases the client and returns
\* cleanRows.length, and the handler answers with rowsImported.
Commit(u) ==
    /\ pc[u] = "commit"
    /\ skippers' = CommittedSkippers(u)
    /\ races' = races \cup tx[u].races
    /\ results' = results \cup tx[u].results
    /\ tx' = [tx EXCEPT ![u] = Finally([NoTx EXCEPT !.state = "committed",
                                                    !.clubChanged = tx[u].clubChanged,
                                                    !.client = tx[u].client,
                                                    !.released = tx[u].released])]
    /\ supplied' = SuppliedAfter(supplied, loc[u].cleanRows, 1)
    /\ resp' = [resp EXCEPT ![u] =
                   Response(200, [rowsImported |-> Len(loc[u].cleanRows)])]
    /\ loc' = [loc EXCEPT ![u] = NoLocals]
    /\ pc' = [pc EXCEPT ![u] = "done"]
    /\ UNCHANGED <<variant, universe, rows, seqSk, seqRace, chat>>

\* A statement of the transaction (BEGIN, an upsert, a race or result insert,
\* COMMIT) fails in the store: a value too long for its column, a deadlock, a
\* lost connection.
\* The wrapper's catch rethrows, and the outer catch issues ROLLBACK.
QueryFails(u) ==
    /\ pc[u] \in {"begin", "upsert", "race", "result", "commit"}
    /\ loc' = [loc EXCEPT ![u] = [NoLocals EXCEPT !.error = FailureOf(u)]]
    /\ tx' = [tx EXCEPT ![u].state = IF @ = "open" THEN "aborted" ELSE @]
    /\ pc' = [pc EXCEPT ![u] = "rollback"]
    /\ UNCHANGED <<variant, universe, rows, resp, skippers, races, results,
                   seqSk, seqRace, supplied, chat>>

\* ROLLBACK succeeds; the client is released, the error is rethrown and the
\* handler answers 500.
Rollback(u) ==
    /\ pc[u] = "rollback"
    /\ skippers' = AfterCatch(u).sk
    /\ races' = AfterCatch(u).races
    /\ results' = AfterCatch(u).results
    /\ tx' = [tx EXCEPT ![u] = Finally(RolledBack(u))]
    /\ resp' = [resp EXCEPT ![u] = UploadFailed(loc[u].error)]
    /\ loc' = [loc EXCEPT ![u] = NoLocals]
    /\ pc' = [pc EXCEPT ![u] = "done"]
    /\ UNCHANGED <<variant, universe, rows, seqSk, seqRace, supplied, chat>>

\* ROLLBACK itself fails (the connection is gone): the store ends the session
\* and discards its transaction; the client is released and the handler
\* answers 500 with the error of the ROLLBACK.
RollbackFails(u) ==
    /\ pc[u] = "rollback"
    /\ tx' = [tx EXCEPT ![u] = Finally(RolledBack(u))]
    /\ resp' = [resp EXCEPT ![u] = UploadFailed(RowError("store error", Null))]
    /\ loc' = [loc EXCEPT ![u] = NoLocals]
    /\ pc' = [pc EXCEPT ![u] = "done"]
    /\ UNCHANGED <<variant, universe, rows, skippers, races, results, seqSk,
                   seqRace, supplied, chat>>

UploadStep(u) ==
    \/ NoFile(u)
    \/ Receive(u)
    \/ ParseError(u)
    \/ OnEnd(u)
    \/ Connect(u)
    \/ ConnectFails(u)
    \/ Begin(u)
    \/ Upsert(u)
    \/ RaceInsert(u)
    \/ ResultInsert(u)
    \/ Commit(u)
    \/ QueryFails(u)
    \/ Rollback(u)
    \/ RollbackFails(u)

(***************************************************************************)
(* The CSV rows of the specifications.                                     *)
(***************************************************************************)
GoodDate == "04/01/2024"

\* Rows about skippers and clubs, and one row that fails the length check.
IdentityRows ==
    {RawRow("Spring Cup", GoodDate, "Ann", "SYC", <<"1">>, <<>>),
     RawRow("Spring Cup", GoodDate, "Ann", "", <<>>, <<>>),
     RawRow("Spring Cup", "2024-03-05", "Ben", "", <<"2">>, <<"1", ".", "5">>),
     RawRow("Spring Cup", GoodDate, "Ann", LongText, <<"3">>, <<>>)}

InitService(U, active, deployed) ==
    /\ variant \in deployed
    /\ universe = U
    /\ pc = [u \in Uploads |-> IF u \in active THEN "idle" ELSE "off"]
    /\ rows = [u \in Uploads |-> <<>>]
    /\ loc = [u \in Uploads |-> NoLocals]
    /\ resp = [u \in Uploads |-> NoResponse]
    /\ tx = [u \in Uploads |-> NoTx]
    /\ skippers = {}
    /\ races = {}
    /\ results = {}
    /\ seqSk = 1
    /\ seqRace = 1
    /\ supplied = {}

InitUpload(U, active, deployed) ==
    /\ InitService(U, active, deployed)
    /\ chat = [pc |-> "off"]

\* Rows for the validation of the upload handler: two that pass, and one for
\* each way a row can fail.
ValidationRows ==
    {RawRow("Spring Cup", GoodDate, "Ann", "SYC", <<"1">>, <<>>),
     RawRow("Spring Cup", "March 5, 2024", "Ben", "", <<>>, <<"1", ".", "5">>),
     RawRow("", GoodDate, "Ann", "SYC", <<"1">>, <<>>),
     RawRow("Spring Cup", GoodDate, " ", "SYC", <<"1">>, <<>>),
     RawRow("Spring Cup", "", "Ann", "SYC", <<"1">>, <<>>),
     RawRow("Spring Cup", "not-a-date", "Ann", "SYC", <<"1">>, <<>>),
     RawRow("Spring Cup", "tomorrow", "Ann", "SYC", <<"1">>, <<>>)}

\* Rows for the result test: every pairing of an absent, a zero and a
\* positive Position and Total_Points.
NumericRows ==
    {RawRow("Spring Cup", GoodDate, "Ann", "", p, t) :
        p \in {<<>>, <<"0">>, <<"1">>}, t \in {<<>>, <<"0">>, <<"1", ".", "5">>}}

\* Rows for the race ids: one row with a result, one without.
RaceRows ==
    {RawRow("Spring Cup", GoodDate, "Ann", "", <<"1">>, <<>>),
     RawRow("Autumn Cup", GoodDate, "Ben", "", <<>>, <<>>)}

Init == InitUpload(IdentityRows, Uploads, {"database.js"})

Next == \E u \in Uploads : UploadStep(u)

\* Two concurrent uploads against the loader of database.js.
Spec == Init /\ [][Next]_vars

\* One upload, with rows that fail validation in every way.
InitValidate == InitUpload(ValidationRows, {"u1"}, {"database.js"})
SpecValidate == InitValidate /\ [][Next]_vars

\* One upload, with every pairing of Position and Total_Points.
InitNumeric == InitUpload(NumericRows, {"u1"}, {"database.js"})
SpecNumeric == InitNumeric /\ [][Next]_vars

\* Two concurrent uploads, against either loader.
InitRaces == InitUpload(RaceRows, Uploads, Variants)
SpecRaces == InitRaces /\ [][Next]_vars

\* Rows whose Position or Total_Points is not a number.
NonNumericRows ==
    {RawRow("Spring Cup", GoodDate, "Ann", "", p, t) :
        p \in {<<"D", "N", "F">>, <<"1">>}, t \in {<<>>, <<"x">>, <<"2">>}}

\* Rows for the date test: the three shapes of date the loader documents, and
\* strings of other shapes.
DateRows ==
    {RawRow("Spring Cup", d, "Ann", "", <<"1">>, <<>>) :
        d \in {"04/01/2024", "2024-03-05", "March 5, 2024",
                "not-a-date", "tomorrow", "20240305", "2024/03/05"}}

\* Lines for the line-number test: an empty line, a valid row, a row the
\* validation refuses and a row the loader refuses.
FileLines ==
    {BlankLine,
     RawRow("Spring Cup", GoodDate, "Ann", "SYC", <<"1">>, <<>>),
     RawRow("Spring Cup", GoodDate, "", "SYC", <<"1">>, <<>>),
     RawRow("Spring Cup", GoodDate, "Ben", LongText, <<"2">>, <<>>)}

\* One upload of a file that may hold empty lines.
InitLines == InitUpload(FileLines, {"u1"}, {"database.js"})
SpecLines == InitLines /\ [][Next]_vars

\* Rows for the length test: a short row, a row whose club is 300 characters
\* once trimmed, and one row for each text field with 301 characters in it.
ShortRow == RawRow("Spring Cup", GoodDate, "Ann", "SYC", <<"1">>, <<>>)
LengthRows ==
    {ShortRow,
     [ShortRow EXCEPT !.Yacht_Club = PaddedText],
     [ShortRow EXCEPT !.Regatta_Name = LongText],
     [ShortRow EXCEPT !.Category = LongText],
     [ShortRow EXCEPT !.Boat_Name = LongText],
     [ShortRow EXCEPT !.Sail_Number = LongText],
     [ShortRow EXCEPT !.Skipper = LongText],
     [ShortRow EXCEPT !.Yacht_Club = LongText]}

\* One upload, to the loader of database.js, of rows of every length.
InitLength == InitUpload(LengthRows, {"u1"}, {"database.js"})
SpecLength == InitLength /\ [][Next]_vars

\* One upload of rows with dates of every shape.
InitDates == InitUpload(DateRows, {"u1"}, {"database.js"})
SpecDates == InitDates /\ [][Next]_vars

\* One upload, with Position and Total_Points values that are not numbers.
InitNonNumeric == InitUpload(NonNumericRows, {"u1"}, {"database.js"})
SpecNonNumeric == InitNonNumeric /\ [][Next]_vars

(***************************************************************************)
(* Properties of the upload path.                                          *)
(***************************************************************************)
\* The committed row versions that request u wrote.
CommittedBy(u) ==
    {s \in skippers : s.by = u} \cup {r \in races : r.by = u}
        \cup {r \in results : r.by = u}

LoadFailed(u) ==
    pc[u] = "done" /\ resp[u].status = 500 /\ tx[u].state = "rolledback"

\* C1: bulkInsertData is all-or-nothing.  Unless the COMMIT of request u has
\* succeeded, the committed skippers, races and results tables hold no row
\* version written by u: a load that failed at any step (BEGIN, an upsert, a
\* race insert, a result insert, COMMIT) leaves nothing behind, not even the
\* yacht_club an upsert of the batch gave an existing skipper.
C1_AllOrNothing ==
    \A u \in Uploads : tx[u].state # "committed" => CommittedBy(u) = {}

\* C1's case: a load that had changed the club of a committed skipper has
\* failed and returned, and the skipper is still in the table.
C1_Witness ==
    \E u \in Uploads :
        /\ LoadFailed(u)
        /\ tx[u].clubChanged
        /\ \E s \in skippers : s.by # u

\* The skipper name of row i of request u's file, as the loader cleans it.
NameOfRow(u, i) == TextOrNull(rows[u][i].data.Skipper)

\* C5: the skippers table holds one row per name (and one name per id), in
\* the committed table and in the view of every transaction, and every result
\* row written for a name references the row of that name.
C5_OneRowPerSkipper ==
    /\ \A s1, s2 \in skippers : (s1.name = s2.name \/ s1.id = s2.id) => s1 = s2
    /\ \A u \in Uploads :
          /\ \A s1, s2 \in ViewSkippers(u) :
                (s1.name = s2.name \/ s1.id = s2.id) => s1 = s2
          /\ \A r \in ViewResults(u) :
                NameOfRow(r.by, r.row) # Null =>
                    \E s \in ViewSkippers(u) :
                        /\ Str(s.name) = NameOfRow(r.by, r.row)
                        /\ r.skipper_id = Num(s.id)

\* C5's case: two uploads that both had rows of one skipper have committed,
\* each with a result for that skipper.
C5_Witness ==
    \E r1, r2 \in results :
        /\ r1.by # r2.by
        /\ r1.skipper_id = r2.skipper_id
        /\ r1.skipper_id # Null
        /\ \A u \in Uploads : tx[u].state = "committed"

\* C6, as claimed: each skipper's yacht_club is the most recent non-null club
\* supplied for the name by the committed loads (in commit order, then row
\* order), and null only if none was supplied.
C6_ClubIsLatestNonNull ==
    \A s \in skippers :
        IF \E e \in supplied : e.name = s.name
        THEN \E e \in supplied : e.name = s.name /\ s.yacht_club = e.club
        ELSE s.yacht_club = Null

\* C7: foreign keys.  In the committed tables and in the view of every
\* transaction, a result's race_id is the id of a race and its skipper_id is
\* null or the id of a skipper; and the result of a CSV row is there only
\* with the race of that row.
C7_ForeignKeys ==
    /\ \A r \in results :
          /\ \E x \in races : x.id = r.race_id
          /\ r.skipper_id = Null \/ \E s \in skippers : Num(s.id) = r.skipper_id
    /\ \A u \in Uploads : \A r \in ViewResults(u) :
          /\ \E x \in ViewRaces(u) : x.id = r.race_id
          /\ r.skipper_id = Null \/ \E s \in ViewSkippers(u) : Num(s.id) = r.skipper_id
          /\ \E x \in ViewRaces(u) : x.by = r.by /\ x.row = r.row

\* C7's case: a transaction holds a result it has not committed, beside
\* committed results of another load.
C7_Witness ==
    \E u \in Uploads :
        /\ tx[u].results # {}
        /\ results # {}
        /\ \E r \in tx[u].results : r.skipper_id # Null

\* A row is valid when its regatta name, skipper and date are present and
\* parseDate accepts the date.
RowIsValid(raw) ==
    /\ Trim(raw.Regatta_Name) # ""
    /\ Trim(raw.Skipper) # ""
    /\ Trim(raw.Regatta_Date) # ""
    /\ ParseDate(raw.Regatta_Date) # Null

FileIsValid(u) == \A i \in 1..Len(rows[u]) : RowIsValid(rows[u][i].data)

\* BEGIN or a later statement of the load has been issued for request u.
StoreTouched(u) ==
    \/ pc[u] \in {"begin", "upsert", "race", "result", "commit", "rollback"}
    \/ tx[u].state # "none"

\* C2: no statement, not even BEGIN, is issued for an upload before every row
\* of its file has passed validation; an upload with an invalid row, wherever
\* the row stands, ends with an error response and nothing of it committed.
C2_ValidateBeforeStore ==
    \A u \in Uploads :
        /\ StoreTouched(u) => FileIsValid(u)
        /\ (pc[u] = "done" /\ Len(rows[u]) > 0 /\ ~FileIsValid(u)) =>
              /\ resp[u].status = 500
              /\ tx[u].state = "none"
              /\ CommittedBy(u) = {}

\* C2's case: a file whose first row is valid and whose last row is not has
\* been refused.
C2_Witness ==
    \E u \in Uploads :
        /\ pc[u] = "done"
        /\ Len(rows[u]) >= 2
        /\ RowIsValid(rows[u][1].data)
        /\ ~RowIsValid(rows[u][Len(rows[u])].data)
        /\ resp[u].status = 500

\* C8, as claimed: a successful load has inserted a result for row i exactly
\* when the row's cleaned position or its cleaned total_points is not null.
C8_ResultIffNonNull ==
    \A u \in Uploads :
        resp[u].status = 200 =>
            \A i \in 1..Len(rows[u]) :
                (\E r \in results : r.by = u /\ r.row = i)
                    <=> \/ CleanPosition(rows[u][i].data.Position) # Null
                        \/ CleanPoints(rows[u][i].data.Total_Points) # Null

\* C9: a successful load of n rows has created n races, one for each row, and
\* each of its results references the race created for its own row, with
\* either loader.
C9_RacePerRow ==
    /\ \A x, y \in races : x.id = y.id => x = y
    /\ \A u \in Uploads :
          resp[u].status = 200 =>
              /\ Cardinality({x \in races : x.by = u}) = Len(rows[u])
              /\ resp[u].body.rowsImported = Len(rows[u])
              /\ \A i \in 1..Len(rows[u]) :
                    Cardinality({x \in races : x.by = u /\ x.row = i}) = 1
              /\ \A r \in results :
                    r.by = u =>
                        \E x \in races :
                            x.id = r.race_id /\ x.by = u /\ x.row = r.row

\* C9's case: with the Promise.all loader, two uploads have committed and a
\* result of a row that is not the first of its file is among the results.
C9_Witness ==
    /\ variant = "index.js"
    /\ \A u \in Uploads : resp[u].status = 200
    /\ \E r \in results : r.row > 1

(***************************************************************************)
(* The chat path: values of the classifier's JSON, validateInput and the   *)
(* SQL templates.  A template is a sequence of fragments: static text of   *)
(* the source, a placeholder $n, or text interpolated from a value.        *)
(***************************************************************************)
DigitChar(d) ==
    CASE d = 0 -> "0" [] d = 1 -> "1" [] d = 2 -> "2" [] d = 3 -> "3"
      [] d = 4 -> "4" [] d = 5 -> "5" [] d = 6 -> "6" [] d = 7 -> "7"
      [] d = 8 -> "8" [] d = 9 -> "9"

\* String(n) of a non-negative integer.
RECURSIVE NumChars(_)
NumChars(n) ==
    IF n < 10 THEN <<DigitChar(n)>> ELSE NumChars(n \div 10) \o <<DigitChar(n % 10)>>

\* String(value), as a template literal and parseInt apply it.
ToText(x) ==
    CASE x.t = "txt" -> x.c
      [] x.t = "num" -> NumChars(x.v)
      [] x.t = "null" -> <<"n", "u", "l", "l">>
      [] x.t = "undefined" -> <<"u", "n", "d", "e", "f", "i", "n", "e", "d">>

\* (Mutant: only '%' is removed.)
RECURSIVE StripPercentOnly(_)
StripPercentOnly(c) ==
    IF c = <<>> THEN <<>>
    ELSE IF Head(c) = "%" THEN StripPercentOnly(Tail(c))
    ELSE <<Head(c)>> \o StripPercentOnly(Tail(c))

\* value.replace(/[%;]/g, '')
RECURSIVE StripChars(_)
StripChars(c) ==
    IF c = <<>> THEN <<>>
    ELSE IF Head(c) \in {"%", ";"} THEN StripChars(Tail(c))
    ELSE <<Head(c)>> \o StripChars(Tail(c))

\* (Mutant: the ends of the year range are left out.)
validateInputOpenRange(value, type) ==
    IF value = Null \/ value = Undefined THEN Null
    ELSE CASE type = "year" ->
                LET year == ParseInt(ToText(value))
                IN  IF year = NaN THEN Null
                    ELSE IF year.v <= 1900 \/ year.v >= 2100 THEN Null
                    ELSE year
           [] type = "position" ->
                LET pos == ParseInt(ToText(value))
                IN  IF pos = NaN THEN Null
                    ELSE IF pos.v < 1 THEN Null
                    ELSE pos
           [] type = "string" -> Txt(TrimChars(StripChars(ToText(value))))
           [] OTHER -> Null

validateInput(value, type) ==
    IF value = Null \/ value = Undefined THEN Null
    ELSE CASE type = "year" ->
                LET year == ParseInt(ToText(value))
                IN  IF year = NaN THEN Null
                    ELSE IF year.v < 1900 \/ year.v > 2100 THEN Null
                    ELSE year
           [] type = "position" ->
                LET pos == ParseInt(ToText(value))
                IN  IF pos = NaN THEN Null
                    ELSE IF pos.v < 1 THEN Null
                    ELSE pos
           [] type = "string" -> Txt(TrimChars(StripChars(ToText(value))))
           [] OTHER -> Null

T(s) == [k |-> "text", s |-> s]
Placeholder(n) == [k |-> "ph", n |-> n]
Interpolated(c) == [k |-> "lit", c |-> c]

\* `%${x}%`
Wrap(x) == Txt(<<"%">> \o ToText(x) \o <<"%">>)

\* The base templates of generateSQL in database.js.
SailorSearchBase ==
    <<T("SELECT s.name as skipper_name, s.yacht_club, r.boat_name, COUNT(DISTINCT r.id) as total_races, ..."),
      T("FROM (SELECT id, name, yacht_club FROM skippers WHERE LOWER(name) LIKE LOWER("),
      Placeholder(1),
      T(") UNION SELECT DISTINCT s.id, s.name, s.yacht_club FROM skippers s"),
      T("JOIN results res ON s.id = res.skipper_id"),
      T("JOIN races r ON res.race_id = r.id"),
      T("WHERE LOWER(r.boat_name) LIKE LOWER("),
      Placeholder(1),
      T(")) s"),
      T("LEFT JOIN results res ON s.id = res.skipper_id"),
      T("LEFT JOIN races r ON res.race_id = r.id"),
      T("GROUP BY s.id, s.name, s.yacht_club, r.boat_name"),
      T("ORDER BY s.name ASC")>>

DatabaseStatusBase ==
    <<T("SELECT (SELECT COUNT(*) FROM skippers) as total_sailors, (SELECT COUNT(*) FROM races) as total_races, ...")>>

RegattaCountBase ==
    <<T("SELECT regatta_name, regatta_date, category, COUNT(DISTINCT res.skipper_id) as participants"),
      T("FROM races r"),
      T("LEFT JOIN results res ON r.id = res.race_id"),
      T("WHERE 1=1"),
      T("GROUP BY r.id, regatta_name, regatta_date, category")>>

\* The base template of generateSQL in index.js.
SailorSearchBaseIndex ==
    <<T("SELECT DISTINCT s.name, s.yacht_club, COUNT(DISTINCT r.id) as total_races, ..."),
      T("FROM skippers s"),
      T("LEFT JOIN results res ON s.id = res.skipper_id"),
      T("LEFT JOIN races r ON res.race_id = r.id"),
      T("WHERE 1=1")>>

\* One step of the list of conditions: when ok, a clause bound to a new
\* parameter, params.push(p); conditions.push(`<pre>$${params.length}<post>`),
\* or (bound FALSE) a clause of fixed text, conditions.push(pre).
Clause(ok, bound, p, pre, post) ==
    [ok |-> ok, bound |-> bound, p |-> p, pre |-> pre, post |-> post]

IsOk(c) == c.ok
IsBound(c) == c.bound

\* (Mutant: each value is put at the front of params.)
ParamsOfUnshift(kept) ==
    LET bound == SelectSeq(kept, IsBound)
    IN  [i \in 1..Len(bound) |-> bound[Len(bound) + 1 - i].p]

\* The params of the clauses that were added: one for each bound clause.
ParamsOf(kept) ==
    LET bound == SelectSeq(kept, IsBound)
    IN  [i \in 1..Len(bound) |-> bound[i].p]

\* The conditions of the clauses that were added; params.length, at the push
\* of a bound clause, is the number of bound clauses up to it.
ConditionsOf(kept) ==
    [i \in 1..Len(kept) |->
        IF kept[i].bound
        THEN <<T(kept[i].pre),
               Placeholder(Len(SelectSeq(SubSeq(kept, 1, i), IsBound)))>>
                 \o (IF kept[i].post = "" THEN <<>> ELSE <<T(kept[i].post)>>)
        ELSE <<T(kept[i].pre)>>]

\* `\nAND ${conditions.join('\nAND ')}` of a non-empty list of conditions.
RECURSIVE JoinAnd(_)
JoinAnd(conditions) ==
    IF conditions = <<>> THEN <<>>
    ELSE <<T("\nAND ")>> \o Head(conditions) \o JoinAnd(Tail(conditions))

safeOrderBy(queryType) ==
    CASE queryType = "most_wins" -> <<T("\nORDER BY "), T("wins DESC")>>
      [] queryType = "winners_list" -> <<T("\nORDER BY "), T("races.regatta_date DESC")>>
      [] queryType = "sailor_search" -> <<T("\nORDER BY "), T("s.name ASC")>>
      [] queryType = "team_results" ->
            <<T("\nORDER BY "), T("races.regatta_date DESC, results.position ASC")>>
      [] OTHER -> <<>>

\* The clauses of generateSQL in the order of the code, from the sanitized
\* values.
ClausesOf(analysis, values) ==
    <<Clause(Truthy(values.sailorName), TRUE, Wrap(values.sailorName),
             "LOWER(s.name) LIKE LOWER(", ")"),
      Clause(Truthy(values.yachtClub), TRUE, Wrap(values.yachtClub),
             "LOWER(s.yacht_club) LIKE LOWER(", ")"),
      Clause(Truthy(values.position), TRUE, values.position,
             "res.position <= ", ""),
      Clause(Truthy(values.regattaName), TRUE, Wrap(values.regattaName),
             "LOWER(r.regatta_name) LIKE LOWER(", ")"),
      Clause(Truthy(values.location), TRUE, Wrap(values.location),
             "LOWER(r.regatta_name) LIKE LOWER(", ")"),
      Clause(Truthy(values.year), TRUE, values.year,
             "EXTRACT(YEAR FROM races.regatta_date) = ", ""),
      Clause(~Truthy(values.year) /\ analysis.timeFrame = "this_year",
             FALSE, Null,
             "EXTRACT(YEAR FROM races.regatta_date) = EXTRACT(YEAR FROM CURRENT_DATE)", ""),
      Clause(analysis.queryType = "winner", FALSE, Null,
             "res.position = 1", "")>>

\* The conditions joined to the base query, the GROUP BY and the ordering.
QueryOf(analysis, baseQuery, kept) ==
    [query |-> baseQuery \o JoinAnd(ConditionsOf(kept))
                 \o (IF analysis.queryType = "sailor_search"
                     THEN <<T("\nGROUP BY s.id, s.name, s.yacht_club")>>
                     ELSE <<>>)
                 \o safeOrderBy(analysis.queryType),
     params |-> ParamsOf(kept)]

\* generateSQL after its switch: the sanitized values, the clauses whose
\* test holds, and the query of them.  (values and kept are bound by the
\* set constructors, so that each is computed once.)
AddConditions(analysis, baseQuery) ==
    LET values == [sailorName |-> validateInput(analysis.sailorName, "string"),
                   yachtClub |-> validateInput(analysis.yachtClub, "string"),
                   regattaName |-> validateInput(analysis.regattaName, "string"),
                   location |-> validateInput(analysis.location, "string"),
                   year |-> validateInput(analysis.year, "year"),
                   position |-> validateInput(analysis.position, "position")]
    IN  CHOOSE q \in
            {QueryOf(analysis, baseQuery, kept) :
                kept \in {SelectSeq(ClausesOf(analysis, v), IsOk) : v \in {values}}} :
          TRUE

\* generateSQL of database.js.
generateSQL(analysis) ==
    CASE analysis.queryType = "sailor_search" ->
            [query |-> SailorSearchBase, params |-> <<Wrap(analysis.sailorName)>>]
      [] analysis.queryType = "database_status" ->
            [query |-> DatabaseStatusBase, params |-> <<>>]
      [] analysis.queryType = "regatta_count" ->
            AddConditions(analysis, RegattaCountBase)
      [] OTHER -> AddConditions(analysis, <<>>)

\* generateSQL of index.js.
generateSQLIndex(analysis) ==
    CASE analysis.queryType = "sailor_search" ->
            AddConditions(analysis, SailorSearchBaseIndex)
      [] OTHER -> AddConditions(analysis, <<>>)

\* The base templates of the earlier generateSQL (part_002).
BaseQueryEarlier(queryType) ==
    CASE queryType = "sailor_stats" ->
            <<T("SELECT s.name as sailor_name, s.yacht_club, COUNT(DISTINCT r.id) as total_races, ..."),
              T("FROM skippers s"),
              T("LEFT JOIN results res ON s.id = res.skipper_id"),
              T("LEFT JOIN races r ON res.race_id = r.id"),
              T("WHERE 1=1"),
              T("GROUP BY s.id, s.name, s.yacht_club")>>
      [] queryType = "performance_stats" ->
            <<T("WITH sailor_stats AS (SELECT s.name, s.yacht_club, ... FROM skippers s ... GROUP BY s.id, s.name, s.yacht_club)"),
              T("SELECT *"),
              T("FROM sailor_stats"),
              T("WHERE races > 0"),
              T("ORDER BY wins DESC, win_percentage DESC")>>
      [] queryType = "regatta_count" ->
            <<T("SELECT COUNT(DISTINCT regatta_name) as regatta_count, array_agg(DISTINCT regatta_name) as regatta_list"),
              T("FROM races"),
              T("WHERE 1=1")>>
      [] queryType = "sailor_search" ->
            <<T("SELECT DISTINCT skippers.name, skippers.yacht_club, COUNT(DISTINCT races.id) as total_races, ..."),
              T("FROM skippers"),
              T("LEFT JOIN results ON skippers.id = results.skipper_id"),
              T("LEFT JOIN races ON results.race_id = races.id"),
              T("WHERE 1=1"),
              T("GROUP BY skippers.id, skippers.name, skippers.yacht_club")>>
      [] queryType = "database_status" ->
            <<T("SELECT COUNT(DISTINCT regatta_name) as total_regattas, COUNT(DISTINCT skippers.id) as total_sailors, ..."),
              T("FROM races"),
              T("LEFT JOIN results ON races.id = results.race_id"),
              T("LEFT JOIN skippers ON results.skipper_id = skippers.id")>>
      [] queryType = "location_races" ->
            <<T("SELECT regatta_name, regatta_date, COUNT(DISTINCT results.skipper_id) as participants"),
              T("FROM races"),
              T("LEFT JOIN results ON races.id = results.race_id"),
              T("WHERE 1=1"),
              T("GROUP BY regatta_name, regatta_date"),
              T("ORDER BY regatta_date DESC")>>
      [] queryType = "team_members" ->
            <<T("SELECT skippers.name, COUNT(DISTINCT races.id) as races_participated, ..."),
              T("FROM skippers"),
              T("LEFT JOIN results ON skippers.id = results.skipper_id"),
              T("LEFT JOIN races ON results.race_id = races.id"),
              T("WHERE 1=1"),
              T("GROUP BY skippers.id, skippers.name"),
              T("ORDER BY races_participated DESC")>>
      [] queryType = "team_results" ->
            <<T("SELECT races.regatta_date, races.regatta_name, skippers.name as skipper, results.position, races.category"),
              T("FROM results"),
              T("JOIN races ON results.race_id = races.id"),
              T("JOIN skippers ON results.skipper_id = skippers.id"),
              T("WHERE 1=1"),
              T("ORDER BY races.regatta_date DESC, results.position ASC")>>
      [] queryType = "winner" ->
            <<T("SELECT skippers.name as skipper_name, skippers.yacht_club, COUNT(*) as wins, array_agg(races.regatta_name) as races_won"),
              T("FROM results"),
              T("JOIN races ON results.race_id = races.id"),
              T("JOIN skippers ON results.skipper_id = skippers.id"),
              T("WHERE position = 1")>>
      [] queryType = "winners_list" ->
            <<T("SELECT TO_CHAR(races.regatta_date, 'YYYY-MM-DD') as race_date, races.regatta_name, ..."),
              T("FROM results"),
              T("JOIN races ON results.race_id = races.id"),
              T("JOIN skippers ON results.skipper_id = skippers.id"),
              T("WHERE position = 1")>>
      [] OTHER ->
            <<T("SELECT TO_CHAR(r.regatta_date, 'YYYY-MM-DD') as race_date, r.regatta_name, ..."),
              T("FROM results res"),
              T("JOIN races r ON res.race_id = r.id"),
              T("JOIN skippers s ON res.skipper_id = s.id"),
              T("WHERE 1=1")>>

\* params.push(`%${value}%`); baseQuery += `<pre>$${paramCount++}<post>`,
\* when the raw value is truthy.
AddLike(acc, value, pre, post) ==
    IF Truthy(value)
    THEN [params |-> Append(acc.params, Wrap(value)),
          query |-> acc.query \o <<T(pre), Placeholder(Len(acc.params) + 1), T(post)>>]
    ELSE acc

OrderingEarlier(queryType) ==
    CASE queryType = "most_wins" ->
            <<T("\nGROUP BY skippers.name, skippers.yacht_club"), T("\nORDER BY wins DESC")>>
      [] queryType = "winners_list" -> <<T("\nORDER BY races.regatta_date DESC")>>
      [] OTHER -> <<T("\nORDER BY races.regatta_date DESC, results.position ASC")>>

\* generateSQL of part_002: the raw fields of the analysis, and the position
\* and the year written into the template.
generateSQLEarlier(analysis) ==
    LET q0 == [query |-> BaseQueryEarlier(analysis.queryType), params |-> <<>>]
        q1 == AddLike(q0, analysis.sailorName, "\nAND LOWER(s.name) LIKE LOWER(", ")")
        q2 == AddLike(q1, analysis.yachtClub, "\nAND LOWER(s.yacht_club) LIKE LOWER(", ")")
        pos == ParseInt(ToText(analysis.position))
        q3 == IF Truthy(analysis.position)
              THEN IF pos # NaN
                   THEN [q2 EXCEPT !.query =
                           @ \o <<T("\nAND res.position <= "), Interpolated(NumChars(pos.v))>>]
                   ELSE q2
              ELSE q2
        q4 == AddLike(q3, analysis.regattaName,
                      "\nAND LOWER(r.regatta_name) LIKE LOWER(", ")")
        q5 == AddLike(q4, analysis.location,
                      "\nAND LOWER(r.regatta_name) LIKE LOWER(", ")")
        q6 == IF Truthy(analysis.year)
              THEN [q5 EXCEPT !.query =
                      @ \o <<T("\nAND EXTRACT(YEAR FROM races.regatta_date) = "),
                             Interpolated(ToText(analysis.year))>>]
              ELSE IF analysis.timeFrame = "this_year"
              THEN [q5 EXCEPT !.query =
                      @ \o <<T("\nAND EXTRACT(YEAR FROM races.regatta_date) = EXTRACT(YEAR FROM CURRENT_DATE)")>>]
              ELSE q5
        q7 == IF analysis.queryType = "winner"
              THEN [q6 EXCEPT !.query = @ \o <<T("\nAND res.position = 1")>>]
              ELSE q6
    IN  [query |-> q7.query \o OrderingEarlier(analysis.queryType),
         params |-> q7.params]

\* The generateSQL of each source file.
SQLVariants == {"database.js", "index.js", "part_002"}

GenerateSQLOf(v, analysis) ==
    CASE v = "database.js" -> generateSQL(analysis)
      [] v = "index.js" -> generateSQLIndex(analysis)
      [] v = "part_002" -> generateSQLEarlier(analysis)

(***************************************************************************)
(* The intents of the specifications: what the classifier's JSON may hold. *)
(***************************************************************************)
\* The number of filter fields an intent holds.
MaxFilters == 2

Filters == {"sailorName", "yachtClub", "regattaName", "location", "year", "position"}

QueryTypes ==
    {"sailor_search", "database_status", "regatta_count", "winner",
     "winners_list", "team_members"}

TimeFrames == {"undefined", "this_year"}

FilterValues(f) ==
    CASE f = "sailorName" ->
            {Txt(<<"A">>), Txt(<<"B", "%">>), Txt(<<"%">>), Null}
      [] f \in {"yachtClub", "regattaName", "location"} ->
            {Txt(<<"A">>), Txt(<<" ", "B", ";">>)}
      [] f = "year" ->
            {Txt(<<"2", "0", "2", "3">>), Num(2024), Txt(<<"1", "8", "9", "9">>)}
      [] f = "position" -> {Txt(<<"3">>), Num(2), Txt(<<"0">>)}

KindOf(f) ==
    CASE f = "year" -> "year" [] f = "position" -> "position" [] OTHER -> "string"

\* The values of filter f in an intent that holds the filters of F.
ValuesIn(F, f) == IF f \in F THEN FilterValues(f) ELSE {Undefined}

\* The intents that hold the filters of F, with every value of each.
IntentsWith(F) ==
    [queryType : QueryTypes, timeFrame : TimeFrames,
     sailorName : ValuesIn(F, "sailorName"), yachtClub : ValuesIn(F, "yachtClub"),
     regattaName : ValuesIn(F, "regattaName"), location : ValuesIn(F, "location"),
     year : ValuesIn(F, "year"), position : ValuesIn(F, "position")]

IntentsUpTo(n) ==
    UNION {IntentsWith(F) : F \in {G \in SUBSET Filters : Cardinality(G) <= n}}

Intents == IntentsUpTo(MaxFilters)

\* The intents that differ from a in the value of one filter field.
Retakes(a) ==
    UNION {{[a EXCEPT ![f] = v] : v \in FilterValues(f) \cup {Undefined}} :
             f \in Filters} \ {a}

(***************************************************************************)
(* The classifier and the handler of POST /api/chat.                       *)
(***************************************************************************)
\* The number of rows the store answers a generated query with.
MaxHits == 2

\* What the classifier call settles with: a rejection, or a completion whose
\* content is missing, empty, a text that is not JSON, or the JSON of a value.
Rejected == [t |-> "rejected", message |-> "Connection error."]
Resolved(content) == [t |-> "resolved", content |-> content]
JSONOf(v) == [t |-> "json", value |-> v]
NotJSON == Txt(<<"S", "o", "r", "r", "y">>)
NoCompletion == [t |-> "none"]

Threw(message) == [threw |-> TRUE, message |-> message]
Returned(value) == [threw |-> FALSE, value |-> value]

DefaultIntent ==
    [queryType |-> "database_status", timeFrame |-> "undefined",
     sailorName |-> Undefined, yachtClub |-> Undefined, regattaName |-> Undefined,
     location |-> Undefined, year |-> Undefined, position |-> Undefined]

\* !completion?.choices?.[0]?.message?.content
ContentMissing(content) == content = Undefined \/ content = Txt(<<>>)

\* (Mutant: a failed classification falls back to the default intent.)
analyzeQueryDefaults(completion) ==
    IF completion.t = "rejected" THEN Returned(DefaultIntent)
    ELSE IF ContentMissing(completion.content) THEN Returned(DefaultIntent)
    ELSE IF completion.content.t # "json" THEN Returned(DefaultIntent)
    ELSE Returned(completion.content.value)

analyzeQuery(completion) ==
    IF completion.t = "rejected" THEN Threw(completion.message)
    ELSE IF ContentMissing(completion.content)
    THEN Threw("Failed to get a valid response from OpenAI")
    ELSE IF completion.content.t # "json"
    THEN Threw("Failed to parse the AI response as JSON")
    ELSE Returned(completion.content.value)

ChatIntents == IntentsUpTo(1)

Completions ==
    {Rejected, Resolved(Undefined), Resolved(Txt(<<>>)), Resolved(NotJSON),
     Resolved(JSONOf(Null))}
        \cup {Resolved(JSONOf(a)) : a \in ChatIntents}

ChatIdle(key) ==
    [pc |-> "idle", apiKey |-> key, completion |-> NoCompletion,
     analysis |-> Undefined, calls |-> <<>>, executed |-> <<>>,
     hits |-> Null, resp |-> [status |-> 0]]

\* The catch of the handler.
ChatFailed(details) ==
    Response(500, [error |-> "Failed to process your question", details |-> details])

ChatAnswer(message, n) == Response(200, [message |-> message, data |-> n])

TableCheck == [kind |-> "tableCheck"]
Generated(sql) == [kind |-> "generated", query |-> sql.query, params |-> sql.params]

\* A message: the text of a template literal and the values put into it.
Text(s, args) == [text |-> s, args |-> args]

\* The dates of the model, in their order.
KnownDates == <<"2024-03-05", "2024-04-01", "2073-08-03">>
DateRank(d) == CHOOSE i \in 1..Len(KnownDates) : KnownDates[i] = d.d

\* MIN(regatta_date) and MAX(regatta_date) over the races: null when no race
\* has a date.
RaceDates == {r.regatta_date : r \in {q \in races : q.regatta_date # Null}}
MinDate ==
    IF RaceDates = {} THEN Null
    ELSE CHOOSE d \in RaceDates : \A e \in RaceDates : DateRank(d) <= DateRank(e)
MaxDate ==
    IF RaceDates = {} THEN Null
    ELSE CHOOSE d \in RaceDates : \A e \in RaceDates : DateRank(d) >= DateRank(e)

\* The one row of the statistics query, on the committed tables.
StatsRow ==
    [total_sailors |-> Num(Cardinality(skippers)),
     total_races |-> Num(Cardinality(races)),
     total_results |-> Num(Cardinality(results)),
     earliest_race |-> MinDate,
     latest_race |-> MaxDate,
     total_clubs |->
        Num(Cardinality({s.yacht_club : s \in {t \in skippers : t.yacht_club # Null}}))]

\* new Date(x).toLocaleDateString(): new Date(null) is the epoch, whose day
\* is printed in the server's time zone.
LocaleDate(x) == IF x = Null THEN Str("<the day of the epoch>") ELSE Str(x.d)

\* (Mutant: toLocaleDateString is called on the column itself.)
StatusMessageDirect(stats) ==
    IF stats.earliest_race = Null \/ stats.latest_race = Null
    THEN Threw("Cannot read properties of null (reading 'toLocaleDateString')")
    ELSE Returned(Text("I know about ${} sailors from ${} yacht clubs. There are ${} races in the database, from ${} to ${}.",
                       <<stats.total_sailors, stats.total_clubs, stats.total_races,
                         Str(stats.earliest_race.d), Str(stats.latest_race.d)>>))

\* The message of case "database_status".
StatusMessage(stats) ==
    Returned(Text("I know about ${} sailors from ${} yacht clubs. There are ${} races in the database, from ${} to ${}.",
                  <<stats.total_sailors, stats.total_clubs, stats.total_races,
                    LocaleDate(stats.earliest_race), LocaleDate(stats.latest_race)>>))

\* The message switch of the handler of database.js, on n rows; the handler
\* has no binding of the name values.
MessageOf(analysis, n) ==
    CASE analysis.queryType = "database_status" ->
            IF n = 0
            THEN Threw("Cannot read properties of undefined (reading 'total_sailors')")
            ELSE StatusMessage(StatsRow)
      [] analysis.queryType = "sailor_search" ->
            IF n = 0 THEN Threw("values is not defined")
            ELSE Returned(Text("Found ${} match(es). ...", <<Num(n)>>))
      [] analysis.queryType = "regatta_count" -> Threw("values is not defined")
      [] OTHER ->
            IF n = 0 THEN Returned(Text("No results found for your query.", <<>>))
            ELSE Returned(Text("Found ${} results.", <<Num(n)>>))

\* The message of the handler of index.js: no generated query selects a
\* column sailor_name.
MessageOfIndex(analysis, n) ==
    IF n = 0 THEN Returned(Text("No results found for your query.", <<>>))
    ELSE Returned(Text("Here are the results for your query:", <<>>))

\* pool.query(sqlQuery, params): the store runs a statement that starts with
\* the SELECT of a base template, has no condition after the GROUP BY of the
\* regatta count, and names no table that its FROM does not have; any other
\* statement it rejects.
Parses(query) ==
    /\ query # <<>>
    /\ query[1] \in {SailorSearchBase[1], DatabaseStatusBase[1],
                     RegattaCountBase[1], SailorSearchBaseIndex[1]}
    /\ query[1] = RegattaCountBase[1] => query = RegattaCountBase
    /\ \A i \in 1..Len(query) :
          query[i] \notin
             {T("EXTRACT(YEAR FROM races.regatta_date) = "),
              T("EXTRACT(YEAR FROM races.regatta_date) = EXTRACT(YEAR FROM CURRENT_DATE)")}

\* The statistics query answers with one row.
AnswerSizes(sql) ==
    IF sql.query = DatabaseStatusBase THEN {1} ELSE 0..MaxHits

ChatRequest ==
    /\ chat.pc = "idle"
    /\ chat' = IF variant = "index.js"
               THEN [chat EXCEPT !.pc = "check", !.executed = Append(@, TableCheck)]
               ELSE [chat EXCEPT !.pc = "analyze"]
    /\ UNCHANGED uploadVars

\* index.js: the table counts arrive; the API key is looked at.
TableCheckDone ==
    /\ chat.pc = "check"
    /\ chat' = IF chat.apiKey
               THEN [chat EXCEPT !.pc = "analyze"]
               ELSE [chat EXCEPT !.pc = "done",
                                 !.resp = ChatFailed("OpenAI API key is not configured")]
    /\ UNCHANGED uploadVars

TableCheckFails ==
    /\ chat.pc = "check"
    /\ chat' = [chat EXCEPT !.pc = "done", !.resp = ChatFailed("store error")]
    /\ UNCHANGED uploadVars

\* await analyzeQuery(...) throws: the catch of the handler answers.
AnalyzeThrows ==
    /\ chat.pc = "analyze"
    /\ \E completion \in Completions :
         LET r == analyzeQuery(completion)
         IN  /\ r.threw
             /\ chat' = [chat EXCEPT !.pc = "done", !.completion = completion,
                                     !.resp = ChatFailed(r.message)]
    /\ UNCHANGED uploadVars

\* await analyzeQuery(...) returns: generateSQL, then pool.query is issued.
AnalyzeReturns ==
    /\ chat.pc = "analyze"
    /\ \E completion \in Completions :
         LET r == analyzeQuery(completion)
         IN  /\ ~r.threw
             /\ chat' =
                  IF r.value = Null
                  THEN IF variant = "index.js"
                       THEN [chat EXCEPT !.pc = "done", !.completion = completion,
                               !.analysis = Null,
                               !.resp = ChatAnswer(Text("I'm having trouble understanding your question. Could you rephrase it?", <<>>), 0)]
                       ELSE [chat EXCEPT !.pc = "done", !.completion = completion,
                               !.analysis = Null, !.calls = Append(@, Null),
                               !.resp = ChatFailed("Cannot read properties of null (reading 'queryType')")]
                  ELSE [chat EXCEPT !.pc = "query", !.completion = completion,
                          !.analysis = r.value, !.calls = Append(@, r.value),
                          !.executed = Append(@, Generated(GenerateSQLOf(variant, r.value)))]
    /\ UNCHANGED uploadVars

\* The rows of the generated query arrive.
QueryDone ==
    /\ chat.pc = "query"
    /\ Parses(chat.executed[Len(chat.executed)].query)
    /\ \E n \in AnswerSizes(chat.executed[Len(chat.executed)]) :
         LET m == IF variant = "index.js" THEN MessageOfIndex(chat.analysis, n)
                  ELSE MessageOf(chat.analysis, n)
         IN  chat' = [chat EXCEPT !.pc = "done", !.hits = Num(n),
                        !.resp = IF m.threw THEN ChatFailed(m.message)
                                 ELSE ChatAnswer(m.value, n)]
    /\ UNCHANGED uploadVars

QueryRejected ==
    /\ chat.pc = "query"
    /\ chat' = [chat EXCEPT !.pc = "done", !.resp = ChatFailed("store error")]
    /\ UNCHANGED uploadVars

NextChat ==
    \/ ChatRequest
    \/ TableCheckDone
    \/ TableCheckFails
    \/ AnalyzeThrows
    \/ AnalyzeReturns
    \/ QueryDone
    \/ QueryRejected

\* One chat request against an empty store, with either handler.
InitChat ==
    /\ InitService({}, {}, Variants)
    /\ \E key \in BOOLEAN : chat = ChatIdle(key)

SpecChat == InitChat /\ [][NextChat]_vars

\* The tables after Ann's one race of the Spring Cup was loaded.
LoadedSkippers == {[id |-> 1, name |-> "Ann", yacht_club |-> Str("SYC"), by |-> "u1"]}
LoadedRaces ==
    {[id |-> 1, regatta_name |-> Str("Spring Cup"),
      regatta_date |-> DateOf("2024-04-01"), category |-> Null,
      boat_name |-> Null, sail_number |-> Null, by |-> "u1", row |-> 1]}

\* One chat request, against the empty tables or the loaded ones.
InitStatus ==
    /\ variant \in Variants
    /\ universe = {}
    /\ pc = [u \in Uploads |-> "off"]
    /\ rows = [u \in Uploads |-> <<>>]
    /\ loc = [u \in Uploads |-> NoLocals]
    /\ resp = [u \in Uploads |-> NoResponse]
    /\ tx = [u \in Uploads |-> NoTx]
    /\ \E loaded \in BOOLEAN :
          /\ skippers = IF loaded THEN LoadedSkippers ELSE {}
          /\ races = IF loaded THEN LoadedRaces ELSE {}
          /\ seqSk = IF loaded THEN 2 ELSE 1
          /\ seqRace = IF loaded THEN 2 ELSE 1
    /\ results = {}
    /\ supplied = {}
    /\ \E key \in BOOLEAN : chat = ChatIdle(key)

SpecStatus == InitStatus /\ [][NextChat]_vars

\* generateSQL is applied to an intent and to a retake of it.
Build ==
    /\ chat.pc = "intent"
    /\ chat' = [chat EXCEPT !.pc = "built",
                  !.sql = GenerateSQLOf(variant, chat.analysis),
                  !.sqlOther = GenerateSQLOf(variant, chat.other)]
    /\ UNCHANGED uploadVars

NextSQL == Build

InitSQL ==
    /\ InitService({}, {}, SQLVariants)
    /\ \E a \in Intents : \E b \in Retakes(a) :
         chat = [pc |-> "intent", analysis |-> a, other |-> b,
                 sql |-> Null, sqlOther |-> Null]

SpecSQL == InitSQL /\ [][NextSQL]_vars

(***************************************************************************)
(* Properties of the chat path.                                            *)
(***************************************************************************)
\* A filter field is present when its sanitized value is truthy.
Present(a, f) == Truthy(validateInput(a[f], KindOf(f)))

\* Two intents of one shape: each filter is given (truthy) in both or in
\* neither, and present after sanitization in both or in neither.
SameShape(a, b) ==
    /\ a.queryType = b.queryType
    /\ a.timeFrame = b.timeFrame
    /\ \A f \in Filters :
         /\ Truthy(a[f]) <=> Truthy(b[f])
         /\ Present(a, f) <=> Present(b, f)

\* C3: the template of generateSQL holds no text of a filter value.  Two
\* intents with the same queryType and timeFrame and the same filters present
\* after sanitization, which differ in the value of a filter, get the same
\* template, fragment for fragment, from the generateSQL of every source file.
C3_TemplateIgnoresValues ==
    (chat.pc = "built" /\ SameShape(chat.analysis, chat.other))
        => chat.sql.query = chat.sqlOther.query

\* The values validateInput returns for the filters of an intent, the text
\* ones wrapped in % ... %.
SanitizedParams(a) ==
    ({Wrap(validateInput(a[f], "string")) :
         f \in {g \in Filters : KindOf(g) = "string"
                                  /\ validateInput(a[g], "string") # Null}}
       \cup {validateInput(a.year, "year"), validateInput(a.position, "position")})
      \ {Null}

\* C4: every element of the params that generateSQL of database.js returns
\* is what validateInput returns for a filter field of the intent (wrapped
\* in % ... % for a text filter), and the template holds no interpolated
\* value.
C4_ParamsAreSanitized ==
    (chat.pc = "built" /\ variant = "database.js")
        => /\ \A i \in 1..Len(chat.sql.params) :
                chat.sql.params[i] \in SanitizedParams(chat.analysis)
           /\ \A i \in 1..Len(chat.sql.query) : chat.sql.query[i].k # "lit"

ClassifierFailed ==
    /\ chat.completion # NoCompletion
    /\ \/ chat.completion = Rejected
       \/ chat.completion \in
            {Resolved(Undefined), Resolved(Txt(<<>>)), Resolved(NotJSON)}

FailureDetail ==
    CASE chat.completion = Rejected -> "Connection error."
      [] chat.completion = Resolved(NotJSON) ->
            "Failed to parse the AI response as JSON"
      [] OTHER -> "Failed to get a valid response from OpenAI"

\* C10: when the classifier call fails (it rejects, its completion has no
\* content, or the content is not JSON), the chat request has ended with a
\* 500 response whose details are the failure's message, generateSQL was not
\* called, no generated query was sent to the store, and the tables are as
\* they were.
C10_ClassifierFailureStops ==
    ClassifierFailed =>
        /\ chat.pc = "done"
        /\ chat.resp.status = 500
        /\ chat.resp.body.details = FailureDetail
        /\ chat.calls = <<>>
        /\ \A i \in 1..Len(chat.executed) : chat.executed[i] = TableCheck
        /\ skippers = {} /\ races = {} /\ results = {}

C10_Witness ==
    /\ ClassifierFailed
    /\ chat.completion = Resolved(NotJSON)
    /\ chat.pc = "done"
    /\ chat.resp.status = 500

(***************************************************************************)
(* Properties of the row cleaning and of the validation of the upload.     *)
(***************************************************************************)
\* A character sequence that is a number: digits, with at most one point
\* among them.
IsNumber(p) ==
    /\ p # <<>>
    /\ \A i \in 1..Len(p) : p[i] \in Digits \cup {"."}
    /\ Cardinality({i \in 1..Len(p) : p[i] = "."}) <= 1
    /\ \E i \in 1..Len(p) : p[i] \in Digits

NotANumber(p) == p # <<>> /\ ~IsNumber(p)

\* C11: a row whose Position or Total_Points is not empty and not a number
\* makes the upload fail: no upload that holds such a row is answered with
\* success, and no stored result holds NaN.
C11_NonNumericFails ==
    /\ \A u \in Uploads :
         (pc[u] = "done" /\ resp[u].status = 200)
            => \A i \in 1..Len(rows[u]) :
                  /\ ~NotANumber(rows[u][i].data.Position)
                  /\ ~NotANumber(rows[u][i].data.Total_Points)
    /\ \A r \in results : r.position # NaN /\ r.total_points # NaN

\* The shapes of date the loader accepts: MM/DD/YYYY, YYYY-MM-DD and
\* "Month DD, YYYY".
AcceptedShape(s) == s \in {"04/01/2024", "2024-03-05", "March 5, 2024"}

OtherShape(raw) ==
    Trim(raw.Regatta_Date) # "" /\ ~AcceptedShape(Trim(raw.Regatta_Date))

\* C12: an upload with a row whose date has none of the three accepted
\* shapes never reaches the loader, and it fails; when that row is the first
\* invalid one, the error is the invalid-date error that holds the row's
\* date string and its line number.
C12_InvalidDateFails ==
    \A u \in Uploads : \A i \in 1..Len(rows[u]) :
        OtherShape(rows[u][i].data) =>
            /\ ~StoreTouched(u)
            /\ pc[u] = "done" =>
                 /\ resp[u].status = 500
                 /\ (\A j \in 1..(i - 1) : RowIsValid(rows[u][j].data)) =>
                       resp[u].body =
                          [msg |-> "Invalid date format",
                           row |-> Num(rows[u][i].lineNumber),
                           value |-> Trim(rows[u][i].data.Regatta_Date)]

\* C13: the line number attached to a parsed row is the line of the file the
\* record stands on, and a row number reported in an error response is the
\* line of the row the error is about.
C13_LineNumberIsPhysical ==
    \A u \in Uploads :
        /\ \A i \in 1..Len(rows[u]) :
              rows[u][i].lineNumber = rows[u][i].physicalLine
        /\ (pc[u] = "done" /\ resp[u].status = 500 /\ resp[u].body.row # Null) =>
              \E i \in 1..Len(rows[u]) :
                 /\ resp[u].body.row = Num(rows[u][i].physicalLine)
                 /\ \/ ~RowIsValid(rows[u][i].data)
                    \/ TextLength(rows[u][i].data.Yacht_Club) > MaxFieldLength

\* The text fields of a raw row, and the rows with a text field of more than
\* 300 characters once trimmed.
TextFields(raw) ==
    {raw.Regatta_Name, raw.Category, raw.Boat_Name, raw.Sail_Number,
     raw.Skipper, raw.Yacht_Club}

Oversized(raw) == \E f \in TextFields(raw) : TextLength(Trim(f)) > MaxFieldLength

TooLongMessages ==
    {"Regatta name too long", "Category too long", "Boat name too long",
     "Sail number too long", "Skipper name too long", "Yacht club name too long"}

\* The versions request u has written in its transaction or committed.
WrittenBy(u) == CommittedBy(u) \cup tx[u].sk \cup tx[u].races \cup tx[u].results

MaxChars == 3

InputChars == {"a", " ", "%", ";"}
InputTexts == {Txt(c) : c \in SeqsUpTo(InputChars, MaxChars)}

\* Numbers around the ends of the ranges, as numbers and as text, and
\* texts parseInt reads in part or not at all.
InputNumbers ==
    LET N == {0, 1, 2, 1899, 1900, 2024, 2100, 2101}
    IN  {Num(n) : n \in N} \cup {Txt(NumChars(n)) : n \in N}
          \cup {Txt(<<"a", "b", "c">>), Txt(<<"-", "5">>), Txt(<<" ", "7">>),
                Txt(<<"2", "0", "2", "4", "a">>)}

InputValues == InputTexts \cup InputNumbers \cup {Null, Undefined}
InputKinds == {"string", "year", "position", "number"}

Sanitize ==
    /\ chat.pc = "input"
    /\ chat' = [chat EXCEPT !.pc = "validated",
                            !.out = validateInput(chat.value, chat.type)]
    /\ UNCHANGED uploadVars

NextInput == Sanitize

InitInput ==
    /\ InitService({}, {}, {"database.js"})
    /\ \E v \in InputValues : \E k \in InputKinds :
         chat = [pc |-> "input", value |-> v, type |-> k, out |-> Undefined]

SpecInput == InitInput /\ [][NextInput]_vars

\* validateInput has been applied to a value that is not null or undefined.
Validated(kind) ==
    /\ chat.pc = "validated"
    /\ chat.type = kind
    /\ chat.value \notin {Null, Undefined}

Harmless(ch) == ch \notin {"%", ";"}

\* r is s without white space at its two ends.
IsTrimOf(r, s) ==
    /\ r = <<>> \/ (r[1] # " " /\ r[Len(r)] # " ")
    /\ \E i \in 1..(Len(s) + 1) :
          /\ i + Len(r) - 1 <= Len(s)
          /\ r = SubSeq(s, i, i + Len(r) - 1)
          /\ \A k \in 1..Len(s) : (k < i \/ k > i + Len(r) - 1) => s[k] = " "

\* C15: for kind string, the returned string holds neither '%' nor ';', has
\* no white space at its ends, and is otherwise the input: its other
\* characters, in their order.
C15_StringIsStripped ==
    Validated("string") =>
        /\ chat.out.t = "txt"
        /\ \A i \in 1..Len(chat.out.c) : Harmless(chat.out.c[i])
        /\ IsTrimOf(chat.out.c, SelectSeq(ToText(chat.value), Harmless))

\* C15's case: a text that starts with white space only once its '%' is gone.
C15_Witness ==
    /\ Validated("string")
    /\ chat.value = Txt(<<"%", " ", "a">>)
    /\ chat.out = Txt(<<"a">>)

\* The integer the claim's examples give for a year or a position.
InRange(n, kind) ==
    IF kind = "year" THEN 1900 <= n /\ n <= 2100 ELSE n >= 1

\* C16: for kind year the result is the parsed integer when it lies in
\* 1900..2100 and null otherwise, for kind position the parsed integer when
\* it is at least 1 and null otherwise, and for a kind that is not known it
\* is null.
C16_RangesOfYearAndPosition ==
    chat.pc = "validated" =>
        /\ chat.value \in {Null, Undefined} => chat.out = Null
        /\ chat.type = "number" => chat.out = Null
        /\ \A kind \in {"year", "position"} : Validated(kind) =>
              /\ chat.out # Null =>
                    /\ chat.out.t = "num"
                    /\ InRange(chat.out.v, kind)
                    /\ chat.out = ParseInt(ToText(chat.value))
              /\ chat.out = Null =>
                    \/ ParseInt(ToText(chat.value)) = NaN
                    \/ ~InRange(ParseInt(ToText(chat.value)).v, kind)
        /\ \A n \in {1899, 1900, 2100, 2101} :
              (Validated("year") /\ chat.value \in {Num(n), Txt(NumChars(n))}) =>
                  chat.out = IF n \in {1900, 2100} THEN Num(n) ELSE Null
        /\ (Validated("year") /\ chat.value = Txt(<<"a", "b", "c">>)) =>
              chat.out = Null
        /\ \A n \in {0, 1} :
              (Validated("position") /\ chat.value \in {Num(n), Txt(NumChars(n))}) =>
                  chat.out = IF n = 1 THEN Num(1) ELSE Null

\* C16's case: the last year of the range has been accepted.
C16_Witness ==
    /\ Validated("year")
    /\ chat.value = Txt(<<"2", "1", "0", "0">>)
    /\ chat.out = Num(2100)

\* C17: for kind string, a value that is empty once '%' and ';' are stripped
\* and the white space is trimmed gives null.
C17_EmptyStringIsNull ==
    (/\ Validated("string")
     /\ \A i \in 1..Len(ToText(chat.value)) :
           ToText(chat.value)[i] \in {" ", "%", ";"}) =>
        chat.out = Null

(***************************************************************************)
(* Properties of generateSQL and of the chat handler's answers.            *)
(***************************************************************************)
\* The query types generateSQL of database.js has a base template for.
OwnTemplate == {"sailor_search", "database_status", "regatta_count"}

\* C18: for a queryType without a base template of its own, generateSQL
\* returns a query that starts with a template's SELECT text: it is not
\* empty and does not start with the AND of a condition or with ORDER BY.
C18_DefaultTemplate ==
    (/\ chat.pc = "built"
     /\ variant = "database.js"
     /\ chat.analysis.queryType \notin OwnTemplate) =>
        /\ chat.sql.query # <<>>
        /\ chat.sql.query[1] \notin {T("\nAND "), T("\nORDER BY ")}

\* The store answered the generated query with n rows.
Answered(n) == chat.pc = "done" /\ chat.hits = Num(n)

NoResultsTexts ==
    {"No results found for your query.",
     "I couldn't find any sailors or boats matching \"${}\". Try a different name or partial name."}

\* C19: when the store returns zero rows for the generated query, the
\* handler answers 200 with a no-results message, whatever the queryType:
\* building the message does not raise.
C19_ZeroRowsAnswered ==
    Answered(0) =>
        /\ chat.resp.status = 200
        /\ chat.resp.body.message.text \in NoResultsTexts

\* C20: with the three tables empty, an answered database_status request is
\* a success whose message reports 0 sailors, 0 clubs and 0 races; the null
\* dates raise nothing.
C20_StatusOfEmptyStore ==
    (/\ chat.pc = "done"
     /\ chat.hits # Null
     /\ chat.analysis.queryType = "database_status"
     /\ skippers = {} /\ races = {} /\ results = {}) =>
        /\ chat.resp.status = 200
        /\ SubSeq(chat.resp.body.message.args, 1, 3) = <<Num(0), Num(0), Num(0)>>

\* C20's case: the status of the empty tables has been answered.
C20_Witness ==
    /\ chat.pc = "done"
    /\ chat.hits = Num(1)
    /\ chat.analysis.queryType = "database_status"
    /\ skippers = {} /\ races = {} /\ results = {}
    /\ chat.resp.status = 200
    /\ chat.resp.body.message.args[4] = LocaleDate(Null)

(***************************************************************************)
(* The administration routes of database.js.  Each statement of a route    *)
(* goes through pool.query, which runs it on whichever pooled connection   *)
(* is idle; a connection keeps its session, and with it a transaction that *)
(* BEGIN opened, when it goes back to the pool.                            *)
(***************************************************************************)
\* const ENABLE_DB_WIPE = false
ENABLE_DB_WIPE == FALSE

\* The connections of the pool.
Conns == {"c1", "c2"}

Tables == {"results", "races", "skippers"}

NoRows == [t \in Tables |-> {}]

\* The session of a connection: whether a transaction is open on it, whether
\* a statement has failed in it, and what the transaction has deleted and
\* inserted.
NoSession == [inTx |-> FALSE, failed |-> FALSE, deleted |-> {}, inserted |-> NoRows]

\* The tables after Ann's one race of the Spring Cup was loaded, with its
\* result.
LoadedResults ==
    {[race_id |-> 1, skipper_id |-> 1, position |-> Num(1), total_points |-> Null,
      by |-> "u1", row |-> 1]}
LoadedTables ==
    [results |-> LoadedResults, races |-> LoadedRaces, skippers |-> LoadedSkippers]

Committed == [results |-> results, races |-> races, skippers |-> skippers]

\* What a statement on connection c sees of table t.
ViewOf(c, t) ==
    (IF t \in chat.conns[c].deleted THEN {} ELSE Committed[t])
        \cup chat.conns[c].inserted[t]

Stmt(kind, table) == [kind |-> kind, table |-> table]

\* The statements of POST /api/clear-database and of POST
\* /api/restore-database, in the order of the code.
StatementsOf(op) ==
    IF op = "clear"
    THEN <<Stmt("BEGIN", ""),
           Stmt("BACKUP", "results"), Stmt("BACKUP", "races"), Stmt("BACKUP", "skippers"),
           Stmt("DELETE", "results"), Stmt("DELETE", "races"), Stmt("DELETE", "skippers"),
           Stmt("COMMIT", "")>>
    ELSE <<Stmt("BEGIN", ""),
           Stmt("DELETE", "results"), Stmt("DELETE", "races"), Stmt("DELETE", "skippers"),
           Stmt("INSERT", "results"), Stmt("INSERT", "races"), Stmt("INSERT", "skippers"),
           Stmt("COMMIT", "")>>

\* results.race_id REFERENCES races(id), results.skipper_id REFERENCES
\* skippers(id): the results in the view of c point at rows in its view.
ReferencesHold(c, res, rac, ski) ==
    \A r \in res : /\ \E q \in rac : q.id = r.race_id
                   /\ \E k \in ski : k.id = r.skipper_id

\* The store can run statement st on connection c: the session has not
\* failed, and the foreign keys and the primary keys hold after it.
Runs(c, st) ==
    /\ ~chat.conns[c].failed \/ st.kind = "COMMIT"
    /\ st.kind = "DELETE" =>
          ReferencesHold(c, IF st.table = "results" THEN {} ELSE ViewOf(c, "results"),
                            IF st.table = "races" THEN {} ELSE ViewOf(c, "races"),
                            IF st.table = "skippers" THEN {} ELSE ViewOf(c, "skippers"))
    /\ st.kind = "INSERT" =>
          /\ chat.backup # Null
          /\ ViewOf(c, st.table) = {}
          /\ ReferencesHold(c,
                IF st.table = "results" THEN chat.backup.results ELSE ViewOf(c, "results"),
                IF st.table = "races" THEN chat.backup.races ELSE ViewOf(c, "races"),
                IF st.table = "skippers" THEN chat.backup.skippers ELSE ViewOf(c, "skippers"))

\* The session of c after statement st has run on it.
SessionAfter(c, st) ==
    LET n == chat.conns[c]
    IN  CASE st.kind = "BEGIN" -> [n EXCEPT !.inTx = TRUE]
          [] st.kind \in {"COMMIT", "ROLLBACK"} -> NoSession
          [] st.kind = "DELETE" /\ n.inTx ->
                [n EXCEPT !.deleted = @ \cup {st.table}, !.inserted[st.table] = {}]
          [] st.kind = "INSERT" /\ n.inTx ->
                [n EXCEPT !.inserted[st.table] = chat.backup[st.table]]
          [] OTHER -> n

\* Table t after statement st has run on c: a statement outside a
\* transaction is committed at once, COMMIT publishes the transaction of its
\* connection (or drops it, when a statement had failed in it).
TableAfter(c, st, t) ==
    LET n == chat.conns[c]
    IN  CASE st.kind = "COMMIT" /\ n.inTx /\ ~n.failed -> ViewOf(c, t)
          [] st.kind = "DELETE" /\ ~n.inTx /\ st.table = t -> {}
          [] st.kind = "INSERT" /\ ~n.inTx /\ st.table = t -> chat.backup[t]
          [] OTHER -> Committed[t]

AdminAnswer(status, body) == [status |-> status, body |-> body]

\* The request, before its handler has run.  (before is history: the
\* committed tables when the request arrived.)
AdminIdle(op, backup) ==
    [pc |-> "run", op |-> op, step |-> 1, conns |-> [c \in Conns |-> NoSession],
     backup |-> backup, resp |-> [status |-> 0], before |-> Committed]

\* await pool.query(<statement>) resolves: the statement ran on an idle
\* connection of the pool; after the last one the handler answers.
AdminRun ==
    /\ chat.pc = "run"
    /\ \E c \in Conns :
         LET st == StatementsOf(chat.op)[chat.step]
             last == chat.step = Len(StatementsOf(chat.op))
         IN  /\ Runs(c, st)
             /\ results' = TableAfter(c, st, "results")
             /\ races' = TableAfter(c, st, "races")
             /\ skippers' = TableAfter(c, st, "skippers")
             /\ chat' = [chat EXCEPT
                   !.conns[c] = SessionAfter(c, st),
                   !.step = @ + 1,
                   !.pc = IF last THEN "done" ELSE "run",
                   !.resp = IF last
                            THEN AdminAnswer(200, IF chat.op = "clear"
                                                  THEN "Database cleared successfully"
                                                  ELSE "Database restored successfully")
                            ELSE @]
    /\ UNCHANGED <<variant, universe, pc, rows, loc, resp, tx, seqSk, seqRace, supplied>>

\* await pool.query(<statement>) rejects: the statement failed on its
\* connection, whose transaction, if it has one, is aborted.
AdminFails ==
    /\ chat.pc = "run"
    /\ \E c \in Conns :
         chat' = [chat EXCEPT !.pc = "catch",
                    !.conns[c].failed = chat.conns[c].inTx]
    /\ UNCHANGED uploadVars

\* The catch block: pool.query('ROLLBACK') runs on an idle connection and the
\* handler answers 500.
AdminRollback ==
    /\ chat.pc = "catch"
    /\ \E c \in Conns :
         chat' = [chat EXCEPT !.pc = "done",
                    !.conns[c] = SessionAfter(c, Stmt("ROLLBACK", "")),
                    !.resp = AdminAnswer(500, IF chat.op = "clear"
                                              THEN "Failed to clear database"
                                              ELSE "Failed to restore database")]
    /\ UNCHANGED uploadVars

\* pool.query('ROLLBACK') rejects inside the catch block: the rejection
\* leaves the handler and no response is sent.
AdminRollbackFails ==
    /\ chat.pc = "catch"
    /\ chat' = [chat EXCEPT !.pc = "unanswered"]
    /\ UNCHANGED uploadVars

(***************************************************************************)
(* The startup: the callback of app.listen awaits initializeDatabase and   *)
(* then updateDatabaseSchema, each statement through pool.query.           *)
(***************************************************************************)
\* The statements of the startup in the order of the code: those of
\* initializeDatabase (checkDatabaseHasData, the three CREATE TABLE IF NOT
\* EXISTS of one query, the triggers, checkDatabaseHasData again) and the
\* ALTER TABLE of updateDatabaseSchema.
StartupStatements ==
    <<"CHECK", "CREATE TABLE", "CREATE TRIGGER", "CHECK", "ALTER TABLE">>

\* counts.race_count > 0 || counts.skipper_count > 0 || counts.result_count > 0
hasExistingData == races # {} \/ skippers # {} \/ results # {}

\* The store can run a statement of the startup: every statement but CREATE
\* TABLE IF NOT EXISTS names tables that have to exist.
StartupRuns(st) == st = "CREATE TABLE" \/ Tables \subseteq chat.schema

\* The process, before the callback of app.listen has run.  (issued, before
\* and lost are history: the statements the store has run, the committed
\* tables at the start, and whether the store was lost.)
StartupIdle(schema) ==
    [pc |-> "start", op |-> "init", step |-> 1, schema |-> schema,
     issued |-> <<>>, before |-> Committed, lost |-> FALSE]

\* await pool.query(<statement>) resolves.  After the first check
\* initializeDatabase returns when a table holds a row; after the last
\* statement the service is running.
StartupRun ==
    /\ chat.pc = "start"
    /\ LET st == StartupStatements[chat.step]
       IN  /\ StartupRuns(st)
           /\ chat' = [chat EXCEPT
                 !.schema = IF st = "CREATE TABLE" THEN Tables ELSE @,
                 !.issued = Append(@, st),
                 !.step = IF chat.step = 1 /\ hasExistingData
                          THEN Len(StartupStatements) ELSE @ + 1,
                 !.pc = IF chat.step = Len(StartupStatements)
                        THEN "listening" ELSE "start"]
    /\ UNCHANGED uploadVars

\* await pool.query(<statement>) rejects because a table the statement names
\* does not exist: the catch blocks rethrow and the callback of app.listen
\* calls process.exit(1).
StartupRejected ==
    /\ chat.pc = "start"
    /\ ~StartupRuns(StartupStatements[chat.step])
    /\ chat' = [chat EXCEPT !.pc = "exit"]
    /\ UNCHANGED uploadVars

\* await pool.query(<statement>) rejects because the store cannot be
\* reached: the process exits in the same way.
StartupLost ==
    /\ chat.pc = "start"
    /\ chat' = [chat EXCEPT !.pc = "exit", !.lost = TRUE]
    /\ UNCHANGED uploadVars

NextAdmin ==
    \/ AdminRun \/ AdminFails \/ AdminRollback \/ AdminRollbackFails
    \/ StartupRun \/ StartupRejected \/ StartupLost

\* One clear or restore request, on the empty tables or the loaded ones; the
\* backup a restore names exists or not.  Or one startup, against a store
\* that has some of the tables or all of them, empty or loaded.
InitAdmin ==
    /\ variant = "database.js"
    /\ universe = {}
    /\ pc = [u \in Uploads |-> "off"]
    /\ rows = [u \in Uploads |-> <<>>]
    /\ loc = [u \in Uploads |-> NoLocals]
    /\ resp = [u \in Uploads |-> NoResponse]
    /\ tx = [u \in Uploads |-> NoTx]
    /\ \E loaded \in BOOLEAN :
          /\ skippers = IF loaded THEN LoadedSkippers ELSE {}
          /\ races = IF loaded THEN LoadedRaces ELSE {}
          /\ results = IF loaded THEN LoadedResults ELSE {}
    /\ seqSk = 2
    /\ seqRace = 2
    /\ supplied = {}
    /\ \/ \E op \in {"clear", "restore"} : \E backup \in {Null, LoadedTables, NoRows} :
             chat = AdminIdle(op, IF op = "clear" THEN Null ELSE backup)
       \/ \E schema \in SUBSET Tables :
             /\ hasExistingData => schema = Tables
             /\ chat = StartupIdle(schema)

SpecAdmin == InitAdmin /\ [][NextAdmin]_vars

(***************************************************************************)
(* Properties of the administration routes.                                *)
(***************************************************************************)
Ids(table) == {r.id : r \in table}

\* C21: while ENABLE_DB_WIPE is false, no step of the service removes a row
\* from skippers, races or results.
C21_NoDeleteWhileProtected ==
    [][~ENABLE_DB_WIPE =>
          /\ Ids(skippers) \subseteq Ids(skippers')
          /\ Ids(races) \subseteq Ids(races')
          /\ results \subseteq results']_vars

\* The handler of the administration request has ended after one of its
\* statements failed.
AdminFailed(op) ==
    chat.pc \in {"done", "unanswered"} /\ chat.op = op /\ chat.resp.status # 200

\* C29: the clear-database operation is atomic: when one of its statements
\* has failed, skippers, races and results are as they were before it.
C29_ClearIsAtomic == AdminFailed("clear") => Committed = chat.before

\* The startup has ended, and not because the store could not be reached.
StartupEnded == chat.pc \in {"listening", "exit"} /\ ~chat.lost

\* The statements that initializeDatabase issued after its first check.
IssuedByInit == {chat.issued[i] : i \in 1..Len(chat.issued)} \ {"CHECK", "ALTER TABLE"}

\* C30: the startup removes no data and ends with the schema present: when
\* a table holds a row, initializeDatabase issues no DDL or DML; otherwise,
\* whether the tables exist or not, it issues its CREATE TABLE statements and
\* the startup completes with races, skippers and results present.
C30_StartupKeepsDataAndSchema ==
    StartupEnded =>
        /\ Committed = chat.before
        /\ IF hasExistingData
           THEN IssuedByInit = {}
           ELSE /\ "CREATE TABLE" \in IssuedByInit
                /\ chat.pc = "listening"
                /\ Tables \subseteq chat.schema

(***************************************************************************)
(* Properties of the query generateSQL returns, read off the query itself. *)
(***************************************************************************)
\* The text that opens the clause of a filter, and the place of the clause
\* in the documented order (regatta name and location filter one column).
NameColumn == "LOWER(s.name) LIKE LOWER("
ClubColumn == "LOWER(s.yacht_club) LIKE LOWER("
PositionColumn == "res.position <= "
RegattaColumn == "LOWER(r.regatta_name) LIKE LOWER("
YearColumn == "EXTRACT(YEAR FROM races.regatta_date) = "
ThisYearClause ==
    "EXTRACT(YEAR FROM races.regatta_date) = EXTRACT(YEAR FROM CURRENT_DATE)"

FilterColumns == {NameColumn, ClubColumn, PositionColumn, RegattaColumn, YearColumn}

ColumnRank(col) ==
    CASE col = NameColumn -> 1 [] col = ClubColumn -> 2 [] col = PositionColumn -> 3
      [] col = RegattaColumn -> 4 [] col = YearColumn -> 6

\* The sanitized value of filter f, as the clause of f binds it.
BoundValue(a, f) ==
    IF KindOf(f) = "string" THEN Wrap(validateInput(a[f], "string"))
    ELSE validateInput(a[f], KindOf(f))

\* The query that was built is one of the loaders of database.js or index.js.
BuiltByCurrent == chat.pc = "built" /\ variant \in {"database.js", "index.js"}

\* Fragment i of the built query is the placeholder of an appended filter
\* clause: it follows the text that opens a filter's clause.
IsFilterPlaceholder(i) ==
    /\ i > 1
    /\ chat.sql.query[i].k = "ph"
    /\ chat.sql.query[i - 1] \in {T(col) : col \in FilterColumns}

\* The places of the appended filter clauses, in the order of the query.
FilterPlaces ==
    SelectSeq([i \in 1..Len(chat.sql.query) |-> i], IsFilterPlaceholder)

ColumnAt(k) == chat.sql.query[FilterPlaces[k] - 1].s

\* The values the k-th clause may be bound to: the sanitized value of its
\* filter (of the regatta name or of the location, for their column).
ValuesFor(k) ==
    CASE ColumnAt(k) = NameColumn -> {BoundValue(chat.analysis, "sailorName")}
      [] ColumnAt(k) = ClubColumn -> {BoundValue(chat.analysis, "yachtClub")}
      [] ColumnAt(k) = PositionColumn -> {BoundValue(chat.analysis, "position")}
      [] ColumnAt(k) = YearColumn -> {BoundValue(chat.analysis, "year")}
      [] ColumnAt(k) = RegattaColumn ->
            IF k > 1 /\ ColumnAt(k - 1) = RegattaColumn
            THEN {BoundValue(chat.analysis, "location")}
            ELSE IF k < Len(FilterPlaces) /\ ColumnAt(k + 1) = RegattaColumn
            THEN {BoundValue(chat.analysis, "regattaName")}
            ELSE {BoundValue(chat.analysis, "regattaName"),
                  BoundValue(chat.analysis, "location")}

\* C22: in the query of generateSQL, the k-th appended filter clause holds
\* placeholder $k and params[k] (counted from 1) is its filter's value, the
\* placeholders of the template are $1 .. $(params.length), and the clauses
\* stand in the order sailor name, club, position, regatta name, location,
\* year.
C22_PlaceholdersMatchParams ==
    BuiltByCurrent =>
        /\ {chat.sql.query[i].n :
               i \in {j \in 1..Len(chat.sql.query) : chat.sql.query[j].k = "ph"}}
             = 1..Len(chat.sql.params)
        /\ \A k \in 1..Len(FilterPlaces) :
              /\ chat.sql.query[FilterPlaces[k]] = Placeholder(k)
              /\ chat.sql.params[k] \in ValuesFor(k)
              /\ k > 1 =>
                    \/ ColumnRank(ColumnAt(k - 1)) < ColumnRank(ColumnAt(k))
                    \/ /\ ColumnAt(k - 1) = RegattaColumn
                       /\ ColumnAt(k) = RegattaColumn
                       /\ (k > 2 => ColumnAt(k - 2) # RegattaColumn)

\* C22's case: a position and a year were bound, in that order.
C22_Witness ==
    /\ BuiltByCurrent
    /\ Len(FilterPlaces) = 2
    /\ ColumnAt(1) = PositionColumn /\ ColumnAt(2) = YearColumn
    /\ chat.sql.params = <<Num(3), Num(2023)>>

ColumnOf(f) ==
    CASE f = "sailorName" -> NameColumn [] f = "yachtClub" -> ClubColumn
      [] f = "position" -> PositionColumn [] f = "year" -> YearColumn
      [] OTHER -> RegattaColumn

\* The number of appended clauses on column col.
ClauseCount(col) ==
    Cardinality({k \in 1..Len(FilterPlaces) : ColumnAt(k) = col})

\* C23: every filter field that is present after sanitization has exactly
\* one AND clause and one parameter in the query of generateSQL, for every
\* queryType.  (The sailor_search template filters the name itself.)
C23_EveryFilterOnce ==
    (chat.pc = "built" /\ variant = "database.js") =>
        \A col \in FilterColumns :
            \/ col = NameColumn /\ chat.sql.query = SailorSearchBase
            \/ /\ ClauseCount(col) =
                    Cardinality({f \in Filters :
                                    ColumnOf(f) = col /\ Present(chat.analysis, f)})
               /\ chat.sql.query # SailorSearchBase =>
                     Len(chat.sql.params) =
                        Cardinality({f \in Filters : Present(chat.analysis, f)})

\* The number of current-calendar-year clauses in the built query.
ThisYearCount ==
    Cardinality({i \in 1..Len(chat.sql.query) : chat.sql.query[i] = T(ThisYearClause)})

\* C24: a year the sanitizer accepts gives exactly one year clause, bound to
\* that year, and no CURRENT_DATE clause, whatever timeFrame is; without such
\* a year, timeFrame this_year gives the current-calendar-year clause and no
\* year parameter; otherwise the query has no year clause.
C24_ExplicitYearWins ==
    (chat.pc = "built" /\ variant = "database.js") =>
        IF Present(chat.analysis, "year")
        THEN /\ ClauseCount(YearColumn) = 1
             /\ ThisYearCount = 0
             /\ \A k \in 1..Len(FilterPlaces) :
                   ColumnAt(k) = YearColumn =>
                      chat.sql.params[k] = BoundValue(chat.analysis, "year")
        ELSE IF chat.analysis.timeFrame = "this_year"
        THEN ClauseCount(YearColumn) = 0 /\ ThisYearCount = 1
        ELSE ClauseCount(YearColumn) = 0 /\ ThisYearCount = 0


\* The places of the query that open a GROUP BY, that open an ORDER BY, and
\* that are the "\nAND " put before an appended condition.
GroupByFragments ==
    {T("GROUP BY s.id, s.name, s.yacht_club, r.boat_name"),
     T("GROUP BY r.id, regatta_name, regatta_date, category"),
     T("\nGROUP BY s.id, s.name, s.yacht_club")}

OrderByFragments == {T("ORDER BY s.name ASC"), T("\nORDER BY ")}

PlacesOf(query, fragments) == {i \in 1..Len(query) : query[i] \in fragments}

\* C25: in every query returned by generateSQL, each appended AND clause
\* comes before any GROUP BY, and the query holds at most one GROUP BY and
\* at most one ORDER BY, the GROUP BY before the ORDER BY.
C25_FiltersInsideWhere ==
    BuiltByCurrent =>
        LET query == chat.sql.query
            ands == PlacesOf(query, {T("\nAND ")})
            groups == PlacesOf(query, GroupByFragments)
            orders == PlacesOf(query, OrderByFragments)
        IN  /\ \A a \in ands : \A g \in groups : a < g
            /\ Cardinality(groups) <= 1
            /\ Cardinality(orders) <= 1
            /\ \A g \in groups : \A o \in orders : g < o


\* The base template that the switch of generateSQL selects.
BaseTemplate(v, queryType) ==
    IF v = "database.js"
    THEN CASE queryType = "sailor_search" -> SailorSearchBase
           [] queryType = "database_status" -> DatabaseStatusBase
           [] queryType = "regatta_count" -> RegattaCountBase
           [] OTHER -> <<>>
    ELSE CASE queryType = "sailor_search" -> SailorSearchBaseIndex
           [] OTHER -> <<>>

\* The name that a FROM or JOIN item of a template binds: its alias, which
\* in SQL replaces the name of the table.
Binds(fragment) ==
    CASE fragment \in {T("FROM skippers s"), T(")) s")} -> {"s"}
      [] fragment \in {T("LEFT JOIN results res ON s.id = res.skipper_id"),
                       T("LEFT JOIN results res ON r.id = res.race_id")} -> {"res"}
      [] fragment \in {T("LEFT JOIN races r ON res.race_id = r.id"),
                       T("FROM races r")} -> {"r"}
      [] OTHER -> {}

BoundIn(template) == UNION {Binds(template[i]) : i \in 1..Len(template)}

\* The table qualifiers of a condition or of an ordering that is appended.
Qualifiers(fragment) ==
    CASE fragment \in {T("LOWER(s.name) LIKE LOWER("),
                       T("LOWER(s.yacht_club) LIKE LOWER("),
                       T("\nGROUP BY s.id, s.name, s.yacht_club"),
                       T("s.name ASC")} -> {"s"}
      [] fragment \in {T("res.position <= "), T("res.position = 1")} -> {"res"}
      [] fragment = T("LOWER(r.regatta_name) LIKE LOWER(") -> {"r"}
      [] fragment \in {T("EXTRACT(YEAR FROM races.regatta_date) = "),
                       T("EXTRACT(YEAR FROM races.regatta_date) = EXTRACT(YEAR FROM CURRENT_DATE)"),
                       T("races.regatta_date DESC")} -> {"races"}
      [] fragment = T("races.regatta_date DESC, results.position ASC") ->
            {"races", "results"}
      [] OTHER -> {}

\* What generateSQL appended to the base template of the intent.
Appended ==
    LET base == BaseTemplate(variant, chat.analysis.queryType)
    IN  SubSeq(chat.sql.query, Len(base) + 1, Len(chat.sql.query))

\* C26: every table qualifier of a clause that generateSQL appends is bound
\* by the FROM/JOIN part of the base template of the same queryType.
C26_QualifiersAreBound ==
    BuiltByCurrent =>
        \A i \in 1..Len(Appended) :
            Qualifiers(Appended[i]) \subseteq
                BoundIn(BaseTemplate(variant, chat.analysis.queryType))


(***************************************************************************)
(* The response of an upload.                                              *)
(***************************************************************************)
\* The request was made and its handling can take no further step.
Ended(u) == pc[u] # "off" /\ ~ENABLED UploadStep(u)

\* C27: every /upload request receives its HTTP response: a request whose
\* handling has ended, in whichever way, was answered.
C27_UploadIsAnswered ==
    \A u \in Uploads : Ended(u) => resp[u] # NoResponse


(***************************************************************************)
(* The pooled client of bulkInsertData.                                    *)
(***************************************************************************)
\* bulkInsertData of request u got a client and has returned or thrown.
LoaderEnded(u) == pc[u] = "done" /\ tx[u].client

\* C28: bulkInsertData releases the client it acquired exactly once on every
\* path (after COMMIT, after a failure and its ROLLBACK, after a ROLLBACK that
\* fails), and never while the transaction on it is neither committed nor
\* rolled back.
C28_ClientReleasedOnce ==
    \A u \in Uploads :
        /\ tx[u].released <= 1
        /\ LoaderEnded(u) => tx[u].released = 1
        /\ tx[u].released > 0 => tx[u].state \in {"committed", "rolledback"}

\* One load has committed and released its client; the ROLLBACK of the other
\* failed, and its client is released too.
C28_Witness ==
    /\ LoaderEnded("u1") /\ tx["u1"].state = "committed" /\ tx["u1"].released = 1
    /\ LoaderEnded("u2") /\ tx["u2"].state = "rolledback" /\ tx["u2"].released = 1
    /\ resp["u2"] = UploadFailed(RowError("store error", Null))

============================================================================
